---- MODULE Spec2Model ----
(***************************************************************************)
(* DarkDiskz (src/main.py): the four setup wizards (RaidWizard,            *)
(* BcacheWizard, FstabWizard, BenchmarkWizard) as state machines over the  *)
(* device inventory and the privileged command executor.                   *)
(*                                                                         *)
(* Strings whose characters the code inspects (startswith, strip, "in",    *)
(* basename) are tuples of one-character strings; None is a tuple that is  *)
(* no string.  One wizard instance lives per behaviour: Init is the state  *)
(* after its __init__.  The handlers of Back and Next are callable whenever *)
(* the window is open and no modal dialog is up, whatever the sensitivity   *)
(* of their buttons; the buttons of a page only while the page is shown.    *)
(***************************************************************************)
EXTENDS Integers, Sequences, FiniteSets, TLC

\* ------------------------------------------------------------- strings

None == <<"None">>

Truthy(x) == x # None /\ x # <<>>

Whitespace == {" ", "\t", "\n"}

StartsWith(s, p) == Len(s) >= Len(p) /\ SubSeq(s, 1, Len(p)) = p

EndsWith(s, p) == Len(s) >= Len(p) /\ SubSeq(s, Len(s) - Len(p) + 1, Len(s)) = p

Contains(s, sub) ==
    \E i \in 1..(Len(s) - Len(sub) + 1) : SubSeq(s, i, i + Len(sub) - 1) = sub

RECURSIVE LStrip(_)
LStrip(s) == IF s # <<>> /\ Head(s) \in Whitespace THEN LStrip(Tail(s)) ELSE s

RECURSIVE RStrip(_)
RStrip(s) ==
    IF s # <<>> /\ s[Len(s)] \in Whitespace THEN RStrip(SubSeq(s, 1, Len(s) - 1)) ELSE s

Strip(s) == RStrip(LStrip(s))

UpperLetters ==
    <<"A","B","C","D","E","F","G","H","I","J","K","L","M",
      "N","O","P","Q","R","S","T","U","V","W","X","Y","Z">>

LowerLetters ==
    <<"a","b","c","d","e","f","g","h","i","j","k","l","m",
      "n","o","p","q","r","s","t","u","v","w","x","y","z">>

LowerChar(c) ==
    IF \E i \in 1..26 : UpperLetters[i] = c
    THEN LowerLetters[CHOOSE i \in 1..26 : UpperLetters[i] = c]
    ELSE c

Lower(s) == [i \in 1..Len(s) |-> LowerChar(s[i])]

\* os.path.basename / dev.split("/")[-1]: what follows the last separator
RECURSIVE Basename(_)
Basename(p) ==
    IF \E i \in 1..Len(p) : p[i] = "/"
    THEN Basename(SubSeq(p, (CHOOSE i \in 1..Len(p) : p[i] = "/") + 1, Len(p)))
    ELSE p

Range(xs) == {xs[i] : i \in 1..Len(xs)}

Digits == <<"0","1","2","3","4","5","6","7","8","9">>

\* str(n) of a natural number, as an f-string formats it
RECURSIVE Str(_)
Str(n) == IF n < 10 THEN <<Digits[n + 1]>> ELSE Str(n \div 10) \o <<Digits[(n % 10) + 1]>>

\* the indices of a finite set of naturals, in increasing order
RECURSIVE SortedSeq(_)
SortedSeq(S) ==
    IF S = {} THEN <<>>
    ELSE LET m == CHOOSE x \in S : \A y \in S : x <= y
         IN  <<m>> \o SortedSeq(S \ {m})

\* ----------------------------------------------------- device inventory

DevPrefix == <<"/","d","e","v","/">>
BcachePrefix == <<"/","d","e","v","/","b","c","a","c","h","e">>

NameSda == <<"s","d","a">>
NameSdb == <<"s","d","b">>
NameSdc == <<"s","d","c">>
NameMd0 == <<"m","d","0">>
NameBcache0 == <<"b","c","a","c","h","e","0">>

TranSata == <<"s","a","t","a">>
TranUsb == <<"u","s","b">>
TypeDisk == <<"d","i","s","k">>
TypeRaid1 == <<"r","a","i","d","1">>

LsblkRow(n, tr, ro, ty, hp, rm) ==
    [name |-> n, tran |-> tr, rota |-> ro, type |-> ty, hotplug |-> hp, rm |-> rm]

\* What the operating system reports: lsblk -d rows, the top-level names of
\* lsblk -J, the arrays of /proc/mdstat, and the paths matching /dev/bcache*.
InventoryDisks ==
    [ lsblk_d |-> << LsblkRow(NameSda, TranSata, TRUE, TypeDisk, FALSE, FALSE),
                     LsblkRow(NameSdb, TranSata, FALSE, TypeDisk, FALSE, FALSE) >>,
      lsblk   |-> << NameSda, NameSdb >>,
      mdstat  |-> << >>,
      glob_bcache |-> << DevPrefix \o NameBcache0 >> ]

InventoryArray ==
    [ lsblk_d |-> << LsblkRow(NameSdc, <<"U","S","B">>, FALSE, TypeDisk, TRUE, TRUE),
                     LsblkRow(NameMd0, None, FALSE, TypeRaid1, FALSE, FALSE) >>,
      lsblk   |-> << NameSdc, NameBcache0 >>,
      mdstat  |-> << [name |-> DevPrefix \o NameMd0, level |-> TypeRaid1] >>,
      glob_bcache |-> << DevPrefix \o NameBcache0 >> ]

Inventories == {InventoryDisks, InventoryArray}

\* DriveInfo.get_drives: one record per row of type "disk"
DriveRecord(row) ==
    [ name |-> DevPrefix \o row.name,
      transport |-> row.tran,
      rotational |-> row.rota,
      is_nvme |-> Contains(Lower(row.name), <<"n","v","m","e">>),
      is_removable |-> row.rm,
      is_hotplug |-> row.hotplug,
      is_usb |-> Lower(row.tran) = TranUsb ]

IsDiskRow(row) == row.type = TypeDisk

RECURSIVE MapDriveRecord(_)
MapDriveRecord(rows) ==
    IF rows = <<>> THEN <<>> ELSE <<DriveRecord(Head(rows))>> \o MapDriveRecord(Tail(rows))

\* the body of get_drives once lsblk's output is decoded into rows
DrivesOfRows(rows) ==
    LET disks == SelectSeq(rows, IsDiskRow)
    IN  IF \E i \in 1..Len(disks) : disks[i].tran = None
        THEN <<>>            \* None has no lower(): the except branch returns []
        ELSE MapDriveRecord(disks)

get_drives(inv) == DrivesOfRows(inv.lsblk_d)

\* a get_drives without its except clause: a failure reaches the caller
get_drives_unguarded(out) ==
    [raised |-> out.status # "ok",
     drives |-> IF out.status = "ok" THEN DrivesOfRows(out.rows) ELSE <<>>]

\* DriveInfo.get_drives over the outcome of the lsblk query: subprocess.run
\* raises (lsblk missing or non-zero exit), json.loads raises, or rows are
\* decoded; every exception ends in the except clause, which returns []
get_drives_run(out) ==
    [raised |-> FALSE,
     drives |-> IF out.status = "ok" THEN DrivesOfRows(out.rows) ELSE <<>>]

\* a filter that also moves removable drives to the usb list
RECURSIVE filter_removable(_)
filter_removable(drives) ==
    IF drives = <<>> THEN [main |-> <<>>, usb |-> <<>>]
    ELSE LET drive == drives[Len(drives)]
             rest == filter_removable(SubSeq(drives, 1, Len(drives) - 1))
         IN  IF drive.is_removable \/ (drive.is_usb /\ Lower(drive.transport) = TranUsb)
             THEN [rest EXCEPT !.usb = Append(@, drive)]
             ELSE [rest EXCEPT !.main = Append(@, drive)]

\* DriveInfo.filter_drives: the loop appends each drive to one of two lists
RECURSIVE filter_drives(_)
filter_drives(drives) ==
    IF drives = <<>> THEN [main |-> <<>>, usb |-> <<>>]
    ELSE LET drive == drives[Len(drives)]
             rest == filter_drives(SubSeq(drives, 1, Len(drives) - 1))
         IN  IF drive.is_usb /\ Lower(drive.transport) = TranUsb
             THEN [rest EXCEPT !.usb = Append(@, drive)]
             ELSE [rest EXCEPT !.main = Append(@, drive)]

\* RaidManager.get_raid_arrays, on the parsed lines of /proc/mdstat
get_raid_arrays(inv) == inv.mdstat

\* BcacheManager.get_bcache_devices: the top-level names holding "bcache"
IsBcacheName(n) == Contains(Lower(n), <<"b","c","a","c","h","e">>)

\* a query that returns every top-level device
get_all_devices(inv) == inv.lsblk

get_bcache_devices(inv) == SelectSeq(inv.lsblk, IsBcacheName)

RECURSIVE Names(_)
Names(recs) == IF recs = <<>> THEN <<>> ELSE <<Head(recs).name>> \o Names(Tail(recs))

RECURSIVE WithDevPrefix(_)
WithDevPrefix(ns) ==
    IF ns = <<>> THEN <<>> ELSE <<DevPrefix \o Head(ns)>> \o WithDevPrefix(Tail(ns))

\* _populate_drive_list of RaidWizard, FstabWizard and BenchmarkWizard: the
\* row.device of every row, in the order the rows are appended
PopulateDriveList(inv) ==
    LET arrays == Names(get_raid_arrays(inv))
        bdevs  == WithDevPrefix(get_bcache_devices(inv))
        NotListed(p) == p \notin Range(bdevs)
        globbed == SelectSeq(inv.glob_bcache, NotListed)
    IN  arrays \o bdevs \o globbed \o Names(get_drives(inv))

\* ---------------------------------------------------------------- state

VARIABLES
    wizard,          \* the class of this instance: "raid", "bcache", "fstab", "benchmark",
                     \* "smart" (SmartWizard) or "detail" (DriveDetailWindow)
    terminal,        \* a supported terminal emulator is installed
    open,            \* the window is presented and not yet closed
    inventory,       \* what the operating system currently reports
    current_step,    \* self.current_step (FstabWizard's 1.5 is FormatStep)
    back_btn,        \* sensitivity of self.back_btn
    next_btn,        \* sensitivity of self.next_btn
    finish_btn,      \* sensitivity of self.finish_btn
    error,           \* body of the modal dialog _show_error presented, NoError when none is up
    result_label,    \* result_label / done_msg: "", "wait", "success" or "failure"
    last_cmd,        \* the shell commands of the last terminal launched, in order
    worker,          \* the creation worker thread: "none", "started", "running", "done"
    idle,            \* callbacks queued by GLib.idle_add, oldest first
    ui_wait,         \* the subprocess.run of a terminal the UI thread is inside, NoWait when none
    drive_list,      \* row.device of the rows of self.drive_list
    drive_sel,       \* indices of the selected rows of self.drive_list
    level_sel,       \* RaidWizard: selected row of level_list, 0 when none
    selected_level,  \* RaidWizard.selected_level, NoLevel for None
    selected_drives, \* RaidWizard.selected_drives
    drive1_wiped,    \* RaidWizard._drive1_wiped
    drive2_wiped,    \* RaidWizard._drive2_wiped
    wipe1_on,        \* device of the wipe that set _drive1_wiped (history)
    wipe2_on,        \* device of the wipe that set _drive2_wiped (history)
    array_name,      \* the worker's array_name, None before the worker picked one
    mdstat_read,     \* the md names /proc/mdstat listed when the worker read it (history)
    mdadm_exit,      \* exit status of the mdadm the terminal ran, NoExit while none ended (history)
    backing_list,    \* BcacheWizard: row.device of the rows of backing_list
    backing_sel,     \* selected row of backing_list, 0 when none
    cache_list,      \* row.device of the rows of cache_list
    cache_sel,       \* selected row of cache_list, 0 when none
    selected_backing,       \* BcacheWizard.selected_backing
    selected_cache,         \* BcacheWizard.selected_cache
    backing_needs_detach,   \* BcacheWizard._backing_needs_detach
    cache_needs_detach,     \* BcacheWizard._cache_needs_detach
    backing_detached,       \* BcacheWizard._backing_detached
    cache_detached,         \* BcacheWizard._cache_detached
    backing_detach_ran,     \* a detach of the backing role ended since Detach was entered (history)
    cache_detach_ran,       \* a detach of the cache role ended since Detach was entered (history)
    backing_wiped,          \* BcacheWizard._backing_wiped
    cache_wiped,            \* BcacheWizard._cache_wiped
    term_returned,          \* the creation worker's subprocess.run returned without raising (history)
    make_bcache_exit,       \* exit status of the make-bcache the terminal ran, NoExit while none ended (history)
    lsblk_read,             \* the top-level names lsblk gave the worker's re-query, None before (history)
    selected_drive,  \* FstabWizard / BenchmarkWizard: self.selected_drive
    needs_format,    \* FstabWizard.needs_format
    format_done,     \* FstabWizard.format_done
    format_on,       \* device of the format that set format_done (history)
    mp_entry,        \* the text of mp_entry
    mount_point,     \* FstabWizard.mount_point
    fs_combo,        \* active text of fs_combo
    fs_type,         \* FstabWizard.fs_type
    mount_options,   \* FstabWizard.mount_options
    volume_label,    \* FstabWizard.volume_label, None while the attribute is not set
    summary_line,    \* FstabWizard.summary_line
    fstype_query,    \* output of the last lsblk -no FSTYPE of _on_next, None before (history)
    uuid_query,      \* output of the last blkid of _on_next, None before (history)
    type_sel,        \* BenchmarkWizard: selected row of type_list, 0 when none
    test_type,       \* BenchmarkWizard.test_type, NoType for None
    test_options,    \* BenchmarkWizard.test_options["size"], None for the empty dict
    result,          \* BenchmarkWizard.result: <<>> for None, else the one record
    results_file,    \* the records of benchmarks.json, oldest first
    testfile,        \* darkdiskz_benchmark.tmp exists on the mount point
    test_sel,        \* SmartWizard: selected row of test_type_list, 0 when none
    selected_test,   \* SmartWizard.selected_test / test_type of run_and_refresh, NoTest for None
    test_success,    \* the success flag run_smart_test returned to the worker
    smart_read,      \* what the last get_smart_info returned, NoInfo before (history)
    content,         \* DriveDetailWindow: what self.content shows
    loaders,         \* DriveDetailWindow: the _load_data_thread threads that have not ended
    toasts,          \* DriveDetailWindow: the toasts toast_overlay shows
    saving,          \* per DarkDiskz process: where it is in save_result, and its locals
    clock,           \* the save_result calls begun so far; a call's timestamp
    saved,           \* the records whose save_result call returned, in that order (history)
    interleaved,     \* some save_result call began while another was under way (history)
    smart_call,      \* a call of DriveInfo.get_smart_info: where it is and what it ran
    listing,         \* a run of get_drives and filter_drives: the query's outcome and
                     \* the lists returned
    tech,            \* a call of DriveInfo.get_technical_details: what its probes
                     \* gave and the dict returned
    raid_arrays      \* a call of RaidManager.get_raid_arrays: the lines of
                     \* /proc/mdstat and the list returned

commonVars ==
    <<wizard, terminal, open, inventory, current_step, back_btn, next_btn, finish_btn, error,
      result_label, last_cmd, worker, idle, ui_wait, drive_list, drive_sel>>

raidVars ==
    <<level_sel, selected_level, selected_drives, drive1_wiped, drive2_wiped,
      wipe1_on, wipe2_on, array_name, mdstat_read, mdadm_exit>>

bcacheVars ==
    <<backing_list, backing_sel, cache_list, cache_sel, selected_backing, selected_cache,
      backing_needs_detach, cache_needs_detach, backing_detached, cache_detached,
      backing_detach_ran, cache_detach_ran, backing_wiped, cache_wiped, term_returned, make_bcache_exit,
      lsblk_read>>

\* what only the creation worker of BcacheWizard writes
bcacheWorkerVars == <<term_returned, make_bcache_exit, lsblk_read>>

fstabVars ==
    <<selected_drive, needs_format, format_done, format_on, mp_entry, mount_point,
      fs_combo, fs_type, mount_options, volume_label, summary_line, fstype_query,
      uuid_query>>

benchVars == <<type_sel, test_type, test_options, result, results_file, testfile>>

smartVars == <<test_sel, selected_test, test_success, smart_read, content, loaders, toasts>>
saveVars == <<saving, clock, saved, interleaved>>
infoVars == <<smart_call, listing, tech, raid_arrays>>

notRaid == <<bcacheVars, fstabVars, benchVars, smartVars, saveVars, infoVars>>
notBcache == <<raidVars, fstabVars, benchVars, smartVars, saveVars, infoVars>>
notFstab == <<raidVars, bcacheVars, benchVars, smartVars, saveVars, infoVars>>
notBench ==
    <<raidVars, bcacheVars, needs_format, format_done, format_on, mp_entry, mount_point,
      fs_combo, fs_type, mount_options, volume_label, summary_line, fstype_query,
      uuid_query, smartVars, saveVars, infoVars>>
wizardVars == <<raidVars, bcacheVars, fstabVars, benchVars, smartVars, saveVars, infoVars>>

vars == <<commonVars, wizardVars>>

Wizards == {"raid", "bcache", "fstab", "benchmark"}

\* every window of the model: the four setup wizards, SmartWizard and
\* DriveDetailWindow
Windows == Wizards \cup {"smart", "detail"}

NoTest == "none"
NoInfo == "none"

NoError == "none"
NoLevel == -1
NoType == -1
NoExit == -1

\* _show_error: a modal dialog with the message; nothing else changes
ShowError(msg) == error' = msg

\* the UI thread is in the main loop
NoWait == [fn |-> "none", device |-> None, flag |-> FALSE, exit |-> NoExit]

\* the UI thread called subprocess.run from fn and waits for the terminal;
\* exit is the exit status of the privileged command the terminal's shell
\* runs, -1 while it has not ended
Wait(fn, device, flag) == [fn |-> fn, device |-> device, flag |-> flag, exit |-> NoExit]

\* the window takes input: it is open, no modal dialog is in front of it, and
\* the UI thread is in the main loop
Interactive == open /\ error = NoError /\ ui_wait = NoWait

\* DriveInfo.detect_terminal finds a terminal emulator or returns None;
\* subprocess.run(cmd, check=True) returns or raises
TermFound == BOOLEAN

\* a detect_terminal that always names an emulator
detect_terminal_always == TRUE

\* DriveInfo.detect_terminal: shutil.which over the supported emulators
detect_terminal == terminal

MsgNoTerminal == "No supported terminal emulator found."
RunOutcome == BOOLEAN

\* the exit status of a command the terminal's shell runs
ExitStatus == {0, 1}

\* ----------------------------------------------------------- RaidWizard

RaidIntro == 0
RaidLevel == 1
RaidDrives == 2
RaidCleanse == 3
RaidReview == 4
RaidResult == 5

\* _update_cleanse_ui without the reset of the flags
RaidUpdateCleanseUiKeepsFlags ==
    UNCHANGED <<drive1_wiped, drive2_wiped, wipe1_on, wipe2_on>>

\* RaidWizard._update_cleanse_ui
RaidUpdateCleanseUi ==
    /\ drive1_wiped' = FALSE
    /\ drive2_wiped' = FALSE
    /\ wipe1_on' = None
    /\ wipe2_on' = None

\* a _show_step that stays on the Review page when asked for the Result page
RaidShowStepKeepsReview(step) ==
    /\ current_step' = IF step = RaidResult THEN RaidReview ELSE step
    /\ IF step = RaidDrives
       THEN drive_list' = PopulateDriveList(inventory) /\ drive_sel' = {}
       ELSE UNCHANGED <<drive_list, drive_sel>>
    /\ IF step = RaidCleanse
       THEN RaidUpdateCleanseUi
       ELSE UNCHANGED <<drive1_wiped, drive2_wiped, wipe1_on, wipe2_on>>
    /\ back_btn' = (step \in {RaidLevel, RaidDrives, RaidCleanse, RaidReview})
    /\ next_btn' = CASE step = RaidCleanse -> (drive1_wiped' /\ drive2_wiped')
                     [] step = RaidResult  -> FALSE
                     [] OTHER              -> TRUE
    /\ finish_btn' = IF step = RaidResult THEN FALSE ELSE finish_btn

\* RaidWizard._show_step
RaidShowStep(step) ==
    /\ current_step' = step
    /\ IF step = RaidDrives
       THEN drive_list' = PopulateDriveList(inventory) /\ drive_sel' = {}
       ELSE UNCHANGED <<drive_list, drive_sel>>
    /\ IF step = RaidCleanse
       THEN RaidUpdateCleanseUi
       ELSE UNCHANGED <<drive1_wiped, drive2_wiped, wipe1_on, wipe2_on>>
    /\ back_btn' = (step \in {RaidLevel, RaidDrives, RaidCleanse, RaidReview})
    /\ next_btn' = CASE step = RaidCleanse -> (drive1_wiped' /\ drive2_wiped')
                     [] step = RaidResult  -> FALSE
                     [] OTHER              -> TRUE
    /\ finish_btn' = IF step = RaidResult THEN FALSE ELSE finish_btn

\* the rows get_selected_rows returns: the selected rows in list order
SelectedDevices == [i \in 1..Cardinality(drive_sel) |-> drive_list[SortedSeq(drive_sel)[i]]]

\* RaidWizard._run_raid_creation, up to the start of the worker thread
RaidRunCreation ==
    /\ result_label' = "wait"
    /\ worker' = "started"

\* RaidWizard._on_next
RaidOnNext ==
    /\ wizard = "raid" /\ Interactive
    /\ CASE current_step = RaidIntro ->
              /\ RaidShowStep(RaidLevel)
              /\ UNCHANGED <<error, selected_level, selected_drives, result_label, worker>>
         [] current_step = RaidLevel ->
              IF level_sel = 0
              THEN /\ ShowError("Please select a RAID level to continue.")
                   /\ UNCHANGED <<current_step, back_btn, next_btn, finish_btn, drive_list,
                                  drive_sel, selected_level, selected_drives, drive1_wiped,
                                  drive2_wiped, wipe1_on, wipe2_on, result_label, worker>>
              ELSE /\ selected_level' = (IF level_sel - 1 = 0 THEN 0 ELSE 1)
                   /\ RaidShowStep(RaidDrives)
                   /\ UNCHANGED <<error, selected_drives, result_label, worker>>
         [] current_step = RaidDrives ->
              IF Cardinality(drive_sel) # 2
              THEN /\ ShowError("Please select exactly two drives.")
                   /\ UNCHANGED <<current_step, back_btn, next_btn, finish_btn, drive_list,
                                  drive_sel, selected_level, selected_drives, drive1_wiped,
                                  drive2_wiped, wipe1_on, wipe2_on, result_label, worker>>
              ELSE /\ selected_drives' = SelectedDevices
                   /\ RaidShowStep(RaidCleanse)
                   /\ UNCHANGED <<error, selected_level, result_label, worker>>
         [] current_step = RaidCleanse ->
              IF ~drive1_wiped \/ ~drive2_wiped
              THEN /\ ShowError("You must wipe both drives before proceeding.")
                   /\ UNCHANGED <<current_step, back_btn, next_btn, finish_btn, drive_list,
                                  drive_sel, selected_level, selected_drives, drive1_wiped,
                                  drive2_wiped, wipe1_on, wipe2_on, result_label, worker>>
              ELSE /\ RaidShowStep(RaidReview)
                   /\ UNCHANGED <<error, selected_level, selected_drives, result_label, worker>>
         [] current_step = RaidReview ->
              /\ RaidShowStep(RaidResult)
              /\ RaidRunCreation
              /\ UNCHANGED <<error, selected_level, selected_drives>>
         [] OTHER ->
              UNCHANGED <<current_step, back_btn, next_btn, finish_btn, drive_list, drive_sel,
                          error, selected_level, selected_drives, drive1_wiped, drive2_wiped,
                          wipe1_on, wipe2_on, result_label, worker>>
    /\ UNCHANGED <<wizard, terminal, ui_wait, open, inventory, last_cmd, idle, level_sel, array_name, mdstat_read, mdadm_exit, notRaid>>

\* RaidWizard._on_back
RaidOnBack ==
    /\ wizard = "raid" /\ Interactive
    /\ CASE current_step = RaidLevel   -> RaidShowStep(RaidIntro)
         [] current_step = RaidDrives  -> RaidShowStep(RaidLevel)
         [] current_step = RaidCleanse -> RaidShowStep(RaidDrives)
         [] OTHER ->
              UNCHANGED <<current_step, back_btn, next_btn, finish_btn, drive_list, drive_sel,
                          drive1_wiped, drive2_wiped, wipe1_on, wipe2_on>>
    /\ UNCHANGED <<wizard, terminal, ui_wait, open, inventory, error, result_label, last_cmd, worker, idle,
                   level_sel, selected_level, selected_drives, array_name, mdstat_read, mdadm_exit, notRaid>>

WipefsCmd(device) == << [prog |-> "wipefs", device |-> device] >>

\* RaidWizard._launch_wipefs (from _on_wipe_drive1 / _on_wipe_drive2), up to
\* subprocess.run: the terminal is run by the calling thread, which waits
RaidLaunchWipefs(device, is_drive2, term) ==
    /\ IF ~term
       THEN /\ ShowError(MsgNoTerminal)
            /\ UNCHANGED <<last_cmd, ui_wait>>
       ELSE /\ last_cmd' = WipefsCmd(device)
            /\ ui_wait' = Wait("_launch_wipefs", device, is_drive2)
            /\ UNCHANGED error
    /\ UNCHANGED <<drive1_wiped, drive2_wiped, wipe1_on, wipe2_on, next_btn>>

\* RaidWizard._launch_wipefs once subprocess.run returned (ok) or raised
RaidWipefsReturned(device, is_drive2, ok) ==
    IF ok
    THEN /\ drive1_wiped' = (IF is_drive2 THEN drive1_wiped ELSE TRUE)
         /\ drive2_wiped' = (IF is_drive2 THEN TRUE ELSE drive2_wiped)
         /\ wipe1_on' = (IF is_drive2 THEN wipe1_on ELSE device)
         /\ wipe2_on' = (IF is_drive2 THEN device ELSE wipe2_on)
         /\ next_btn' = (drive1_wiped' /\ drive2_wiped')
    ELSE UNCHANGED <<drive1_wiped, drive2_wiped, wipe1_on, wipe2_on, next_btn>>

raidWipeFrame ==
    <<wizard, terminal, open, inventory, current_step, back_btn, finish_btn, result_label, worker,
      idle, drive_list, drive_sel, level_sel, selected_level, selected_drives, array_name,
      mdstat_read, mdadm_exit, notRaid>>

\* RaidWizard._on_wipe_drive1
RaidOnWipeDrive1 ==
    /\ wizard = "raid" /\ Interactive /\ current_step = RaidCleanse
    /\ \E term \in {detect_terminal} : RaidLaunchWipefs(selected_drives[1], FALSE, term)
    /\ UNCHANGED raidWipeFrame

\* RaidWizard._on_wipe_drive2
RaidOnWipeDrive2 ==
    /\ wizard = "raid" /\ Interactive /\ current_step = RaidCleanse
    /\ \E term \in {detect_terminal} : RaidLaunchWipefs(selected_drives[2], TRUE, term)
    /\ UNCHANGED raidWipeFrame

\* the terminal of _launch_wipefs exits and the handler runs to its end
RaidWipefsReturn ==
    /\ wizard = "raid" /\ ui_wait.fn = "_launch_wipefs"
    /\ \E ok \in RunOutcome : (ok => ui_wait.exit # NoExit) /\ RaidWipefsReturned(ui_wait.device, ui_wait.flag, ok)
    /\ ui_wait' = NoWait
    /\ UNCHANGED <<error, last_cmd, raidWipeFrame>>

\* the user selects a row of level_list (SelectionMode.SINGLE)
RaidSelectLevel ==
    /\ wizard = "raid" /\ Interactive /\ current_step = RaidLevel
    /\ \E i \in 1..2 : level_sel' = i
    /\ UNCHANGED <<wizard, terminal, ui_wait, open, inventory, current_step, back_btn, next_btn, finish_btn,
                   error, result_label, last_cmd, worker, idle, drive_list, drive_sel,
                   selected_level, selected_drives, drive1_wiped, drive2_wiped, wipe1_on,
                   wipe2_on, array_name, mdstat_read, mdadm_exit, notRaid>>

\* the user selects or unselects a row of drive_list (SelectionMode.MULTIPLE)
RaidToggleDrive ==
    /\ wizard = "raid" /\ Interactive /\ current_step = RaidDrives
    /\ \E i \in 1..Len(drive_list) :
          drive_sel' = IF i \in drive_sel THEN drive_sel \ {i} ELSE drive_sel \cup {i}
    /\ UNCHANGED <<wizard, terminal, ui_wait, open, inventory, current_step, back_btn, next_btn, finish_btn,
                   error, result_label, last_cmd, worker, idle, drive_list, raidVars, notRaid>>

\* f"md{i}"
MdName(i) == <<"m","d">> \o Str(i)

\* the array name the worker picks: the first md<i> of range(0, 10) whose
\* /dev/md<i> is not in used_names, md10 when the loop ends without a break
MdLoopEnd == 10

\* a loop that looks for the bare md<i> among the /dev paths
PickArrayNameBare(used_names) ==
    IF \E i \in 0..(MdLoopEnd - 1) : MdName(i) \notin used_names
    THEN MdName(CHOOSE i \in 0..(MdLoopEnd - 1) :
                   /\ MdName(i) \notin used_names
                   /\ \A j \in 0..(MdLoopEnd - 1) : j < i => MdName(j) \in used_names)
    ELSE MdName(MdLoopEnd)

PickArrayName(used_names) ==
    IF \E i \in 0..(MdLoopEnd - 1) : DevPrefix \o MdName(i) \notin used_names
    THEN MdName(CHOOSE i \in 0..(MdLoopEnd - 1) :
                   /\ DevPrefix \o MdName(i) \notin used_names
                   /\ \A j \in 0..(MdLoopEnd - 1) :
                         j < i => DevPrefix \o MdName(j) \in used_names)
    ELSE MdName(MdLoopEnd)

\* the md names /proc/mdstat may list when the worker reads it: md0..md<k-1>
\* with at most one of md0, md1 missing
MaxMdListed == 11

UsedNames ==
    { { MdName(i) : i \in (0..(k - 1)) \ {h} } : k \in 0..MaxMdListed, h \in {-1, 0, 1} }

\* the 'name' of every array get_raid_arrays returns for those lines
ArrayPaths(listed) == { DevPrefix \o n : n \in listed }

MdadmCmd(name, level, devices) ==
    << [prog |-> "mdadm", array |-> DevPrefix \o name, level |-> level, raid_devices |-> 2,
        devices |-> <<devices[1], devices[2]>>] >>

\* worker() of _run_raid_creation, up to subprocess.run
RaidWorkerLaunch ==
    /\ wizard = "raid" /\ worker = "started"
    /\ \E listed \in UsedNames, term \in {detect_terminal} :
          /\ mdstat_read' = listed
          /\ array_name' = PickArrayName(ArrayPaths(listed))
          /\ IF ~term
             THEN /\ idle' = Append(idle, [fn |-> "_show_raid_result", success |-> FALSE])
                  /\ worker' = "done"
                  /\ UNCHANGED last_cmd
             ELSE /\ last_cmd' = MdadmCmd(array_name', selected_level, selected_drives)
                  /\ worker' = "running"
                  /\ UNCHANGED idle
    /\ UNCHANGED <<wizard, terminal, ui_wait, open, inventory, current_step, back_btn, next_btn, finish_btn,
                   error, result_label, drive_list, drive_sel, level_sel, selected_level,
                   selected_drives, drive1_wiped, drive2_wiped, wipe1_on, wipe2_on,
                   mdadm_exit, notRaid>>

\* worker() of _run_raid_creation: subprocess.run returns or raises.  The
\* shell ran "sudo mdadm ...; read ..."; check=True looks at the exit status
\* of the terminal emulator, which does not depend on that of mdadm.
RaidWorkerExit ==
    /\ wizard = "raid" /\ worker = "running"
    /\ \E ok \in RunOutcome, status \in ExitStatus \cup {NoExit} :
          /\ ok => status # NoExit      \* a terminal that returned ran its shell
          /\ mdadm_exit' = status
          /\ idle' = Append(idle, [fn |-> "_show_raid_result", success |-> ok])
    /\ worker' = "done"
    /\ UNCHANGED <<wizard, terminal, ui_wait, open, inventory, current_step, back_btn, next_btn, finish_btn,
                   error, result_label, last_cmd, drive_list, drive_sel, level_sel,
                   selected_level, selected_drives, drive1_wiped, drive2_wiped, wipe1_on,
                   wipe2_on, array_name, mdstat_read, notRaid>>

\* RaidWizard._show_raid_result, run by the main loop
\* a result callback that enables Finish after a success only
RaidShowResultSuccessOnly(success) ==
    /\ result_label' = IF success THEN "success" ELSE "failure"
    /\ finish_btn' = success

RaidShowResult(success) ==
    /\ result_label' = IF success THEN "success" ELSE "failure"
    /\ finish_btn' = TRUE

\* --------------------------------------------------------- BcacheWizard

BcacheIntro == 0
BcacheBacking == 1
BcacheCache == 2
BcacheDetach == 3
BcacheCleanse == 4
BcacheReview == 5
BcacheResult == 6

\* the filter of _populate_backing_list: non-USB, non-NVMe, rotational
IsHdd(d) == ~d.is_usb /\ ~d.is_nvme /\ d.rotational

\* the filter of _populate_cache_list: non-USB, non-rotational
\* a cache filter without the rotational test
IsNotUsb(d) == ~d.is_usb

IsSsd(d) == ~d.is_usb /\ ~d.rotational

\* BcacheWizard._populate_backing_list: the RAID arrays, then the HDDs
PopulateBackingList(inv) ==
    Names(get_raid_arrays(inv)) \o Names(SelectSeq(get_drives(inv), IsHdd))

\* BcacheWizard._populate_cache_list
PopulateCacheList(inv) == Names(SelectSeq(get_drives(inv), IsSsd))

\* can_next of the Detach step
BcacheDetachGate(bn, bd, cn, cd) == (~bn \/ bd) /\ (~cn \/ cd)

\* can_next of the Cleanse step
BcacheCleanseGate(cache, bw, cw) == bw /\ (cache = None \/ cw)

\* the test of _on_next at the Detach step
BcacheDetachBlocked(bn, bd, cn, cd) == (bn /\ ~bd) \/ (cn /\ ~cd)

\* the test of the Cleanse step without the cache device
BcacheCleanseBlockedBackingOnly(cache, bw, cw) == ~bw

\* the test of _on_next at the Cleanse step
BcacheCleanseBlocked(cache, bw, cw) == ~bw \/ (Truthy(cache) /\ ~cw)

\* glob.glob("/sys/block/bcache*/slaves/<devname>") finds a path or none
SysfsMember == BOOLEAN

\* BcacheWizard._update_detach_ui, with self.selected_backing = backing and
\* self.selected_cache = cache; bm, cm: the device of the role is listed among
\* the slaves of a bcache device
BcacheUpdateDetachUi(backing, cache, bm, cm) ==
    /\ backing_needs_detach' = (Truthy(backing) /\ bm)
    /\ backing_detached' = (Truthy(backing) /\ ~bm)
    /\ cache_needs_detach' = (Truthy(cache) /\ cm)
    /\ cache_detached' = (Truthy(cache) /\ ~cm)
    /\ backing_detach_ran' = FALSE
    /\ cache_detach_ran' = FALSE

\* BcacheWizard._update_cleanse_ui
BcacheUpdateCleanseUi ==
    /\ backing_wiped' = FALSE
    /\ cache_wiped' = FALSE

\* BcacheWizard._show_step, with self.selected_backing = backing and
\* self.selected_cache = cache as the caller has left them
BcacheShowStep(step, backing, cache) ==
    /\ current_step' = step
    /\ IF step = BcacheBacking
       THEN backing_list' = PopulateBackingList(inventory) /\ backing_sel' = 0
       ELSE UNCHANGED <<backing_list, backing_sel>>
    /\ IF step = BcacheCache
       THEN cache_list' = PopulateCacheList(inventory) /\ cache_sel' = 0
       ELSE UNCHANGED <<cache_list, cache_sel>>
    /\ IF step = BcacheDetach
       THEN \E bm \in SysfsMember, cm \in SysfsMember :
                BcacheUpdateDetachUi(backing, cache, bm, cm)
       ELSE UNCHANGED <<backing_needs_detach, cache_needs_detach, backing_detached,
                        cache_detached, backing_detach_ran, cache_detach_ran>>
    /\ IF step = BcacheCleanse
       THEN BcacheUpdateCleanseUi
       ELSE UNCHANGED <<backing_wiped, cache_wiped>>
    /\ back_btn' = (step \in BcacheBacking..BcacheReview)
    /\ next_btn' =
          CASE step = BcacheDetach ->
                  BcacheDetachGate(backing_needs_detach', backing_detached',
                                   cache_needs_detach', cache_detached')
            [] step = BcacheCleanse ->
                  BcacheCleanseGate(cache, backing_wiped', cache_wiped')
            [] step = BcacheResult -> FALSE
            [] OTHER -> TRUE
    /\ finish_btn' = IF step = BcacheResult THEN FALSE ELSE finish_btn

bcacheStepVars ==
    <<current_step, back_btn, next_btn, finish_btn, backing_list, backing_sel, cache_list,
      cache_sel, backing_needs_detach, cache_needs_detach, backing_detached, cache_detached,
      backing_detach_ran, cache_detach_ran, backing_wiped, cache_wiped>>

\* BcacheWizard._run_bcache_creation, up to the start of the worker thread
BcacheRunCreation ==
    /\ result_label' = "wait"
    /\ worker' = "started"

\* BcacheWizard._on_next
BcacheOnNext ==
    /\ wizard = "bcache" /\ Interactive
    /\ CASE current_step = BcacheIntro ->
              /\ BcacheShowStep(BcacheBacking, selected_backing, selected_cache)
              /\ UNCHANGED <<error, selected_backing, selected_cache, result_label, worker>>
         [] current_step = BcacheBacking ->
              IF backing_sel = 0
              THEN /\ ShowError("Please select a backing device (HDD) to continue.")
                   /\ UNCHANGED <<bcacheStepVars, selected_backing, selected_cache,
                                  result_label, worker>>
              ELSE /\ selected_backing' = backing_list[backing_sel]
                   /\ BcacheShowStep(BcacheCache, selected_backing', selected_cache)
                   /\ UNCHANGED <<error, selected_cache, result_label, worker>>
         [] current_step = BcacheCache ->
              /\ selected_cache' =
                    IF cache_sel # 0 THEN cache_list[cache_sel] ELSE selected_cache
              /\ BcacheShowStep(BcacheDetach, selected_backing, selected_cache')
              /\ UNCHANGED <<error, selected_backing, result_label, worker>>
         [] current_step = BcacheDetach ->
              IF BcacheDetachBlocked(backing_needs_detach, backing_detached,
                                     cache_needs_detach, cache_detached)
              THEN /\ ShowError("You must detach all devices from bcache before proceeding.")
                   /\ UNCHANGED <<bcacheStepVars, selected_backing, selected_cache,
                                  result_label, worker>>
              ELSE /\ BcacheShowStep(BcacheCleanse, selected_backing, selected_cache)
                   /\ UNCHANGED <<error, selected_backing, selected_cache, result_label,
                                  worker>>
         [] current_step = BcacheCleanse ->
              IF BcacheCleanseBlocked(selected_cache, backing_wiped, cache_wiped)
              THEN /\ ShowError("You must wipe both devices before proceeding.")
                   /\ UNCHANGED <<bcacheStepVars, selected_backing, selected_cache,
                                  result_label, worker>>
              ELSE /\ BcacheShowStep(BcacheReview, selected_backing, selected_cache)
                   /\ UNCHANGED <<error, selected_backing, selected_cache, result_label,
                                  worker>>
         [] current_step = BcacheReview ->
              /\ BcacheShowStep(BcacheResult, selected_backing, selected_cache)
              /\ BcacheRunCreation
              /\ UNCHANGED <<error, selected_backing, selected_cache>>
         [] OTHER ->
              UNCHANGED <<bcacheStepVars, error, selected_backing, selected_cache,
                          result_label, worker>>
    /\ UNCHANGED <<wizard, terminal, ui_wait, open, inventory, last_cmd, idle, drive_list, drive_sel, bcacheWorkerVars, notBcache>>

\* BcacheWizard._on_back
BcacheOnBack ==
    /\ wizard = "bcache" /\ Interactive
    /\ CASE current_step = BcacheBacking -> BcacheShowStep(BcacheIntro, selected_backing, selected_cache)
         [] current_step = BcacheCache   -> BcacheShowStep(BcacheBacking, selected_backing, selected_cache)
         [] current_step = BcacheDetach  -> BcacheShowStep(BcacheCache, selected_backing, selected_cache)
         [] current_step = BcacheCleanse -> BcacheShowStep(BcacheDetach, selected_backing, selected_cache)
         [] current_step = BcacheReview  -> BcacheShowStep(BcacheCleanse, selected_backing, selected_cache)
         [] OTHER -> UNCHANGED bcacheStepVars
    /\ UNCHANGED <<wizard, terminal, ui_wait, open, inventory, error, result_label, last_cmd, worker, idle,
                   drive_list, drive_sel, selected_backing, selected_cache, bcacheWorkerVars, notBcache>>

\* BcacheWizard._on_skip_cache: the Skip control of the Cache-device page
BcacheOnSkipCache ==
    /\ wizard = "bcache" /\ Interactive /\ current_step = BcacheCache
    /\ selected_cache' = None
    /\ BcacheShowStep(BcacheDetach, selected_backing, None)
    /\ UNCHANGED <<wizard, terminal, ui_wait, open, inventory, error, result_label, last_cmd, worker, idle,
                   drive_list, drive_sel, selected_backing, bcacheWorkerVars, notBcache>>

\* BcacheWizard._launch_wipefs (from _on_wipe_backing / _on_wipe_cache), up
\* to subprocess.run
BcacheLaunchWipefs(device, is_cache, term) ==
    /\ IF ~term
       THEN /\ ShowError(MsgNoTerminal)
            /\ UNCHANGED <<last_cmd, ui_wait>>
       ELSE /\ last_cmd' = WipefsCmd(device)
            /\ ui_wait' = Wait("_launch_wipefs", device, is_cache)
            /\ UNCHANGED error
    /\ UNCHANGED <<backing_wiped, cache_wiped, next_btn>>

\* BcacheWizard._launch_wipefs once subprocess.run returned (ok) or raised
BcacheWipefsReturned(is_cache, ok) ==
    IF ok
    THEN /\ cache_wiped' = (IF is_cache THEN TRUE ELSE cache_wiped)
         /\ backing_wiped' = (IF is_cache THEN backing_wiped ELSE TRUE)
         /\ next_btn' = BcacheCleanseGate(selected_cache, backing_wiped', cache_wiped')
    ELSE UNCHANGED <<backing_wiped, cache_wiped, next_btn>>

bcacheWipeFrame ==
    <<wizard, terminal, open, inventory, current_step, back_btn, finish_btn, result_label, worker,
      idle, drive_list, drive_sel, backing_list, backing_sel, cache_list, cache_sel,
      selected_backing, selected_cache, backing_needs_detach, cache_needs_detach,
      backing_detached, cache_detached, backing_detach_ran, cache_detach_ran,
      bcacheWorkerVars, notBcache>>

\* BcacheWizard._on_wipe_backing
BcacheOnWipeBacking ==
    /\ wizard = "bcache" /\ Interactive /\ current_step = BcacheCleanse
    /\ \E term \in {detect_terminal} : BcacheLaunchWipefs(selected_backing, FALSE, term)
    /\ UNCHANGED bcacheWipeFrame

\* BcacheWizard._on_wipe_cache; _update_cleanse_ui shows its button only
\* when a cache device is selected
BcacheOnWipeCache ==
    /\ wizard = "bcache" /\ Interactive /\ current_step = BcacheCleanse
    /\ Truthy(selected_cache)
    /\ \E term \in {detect_terminal} : BcacheLaunchWipefs(selected_cache, TRUE, term)
    /\ UNCHANGED bcacheWipeFrame

\* the terminal of _launch_wipefs exits and the handler runs to its end
BcacheWipefsReturn ==
    /\ wizard = "bcache" /\ ui_wait.fn = "_launch_wipefs"
    /\ \E ok \in RunOutcome : (ok => ui_wait.exit # NoExit) /\ BcacheWipefsReturned(ui_wait.flag, ok)
    /\ ui_wait' = NoWait
    /\ UNCHANGED <<error, last_cmd, bcacheWipeFrame>>

DetachCmd(device) == << [prog |-> "detach", device |-> device] >>

\* a detach that marks both roles
MarkDetachedBothRoles(is_cache) ==
    /\ cache_detached' = TRUE
    /\ backing_detached' = TRUE

\* the flag _launch_detach sets: that of the role it was called for
MarkDetached(is_cache) ==
    /\ cache_detached' = (IF is_cache THEN TRUE ELSE cache_detached)
    /\ backing_detached' = (IF is_cache THEN backing_detached ELSE TRUE)

\* BcacheWizard._launch_detach (from _on_detach_backing / _on_detach_cache),
\* up to subprocess.run; member: the device is still listed among the slaves
\* of a bcache device
BcacheLaunchDetach(device, is_cache, term, member) ==
    IF ~term
    THEN /\ ShowError(MsgNoTerminal)
         /\ UNCHANGED <<last_cmd, ui_wait, backing_detached, cache_detached,
                        backing_detach_ran, cache_detach_ran, next_btn>>
    ELSE IF ~member
    THEN /\ MarkDetached(is_cache)
         /\ cache_detach_ran' = (IF is_cache THEN TRUE ELSE cache_detach_ran)
         /\ backing_detach_ran' = (IF is_cache THEN backing_detach_ran ELSE TRUE)
         /\ UNCHANGED <<error, last_cmd, ui_wait, next_btn>>
    ELSE /\ last_cmd' = DetachCmd(device)
         /\ ui_wait' = Wait("_launch_detach", device, is_cache)
         /\ UNCHANGED <<error, backing_detached, cache_detached, backing_detach_ran,
                        cache_detach_ran, next_btn>>

\* BcacheWizard._launch_detach once subprocess.run returned (ok) or raised
BcacheDetachReturned(is_cache, ok) ==
    IF ok
    THEN /\ MarkDetached(is_cache)
         /\ cache_detach_ran' = (IF is_cache THEN TRUE ELSE cache_detach_ran)
         /\ backing_detach_ran' = (IF is_cache THEN backing_detach_ran ELSE TRUE)
         /\ next_btn' = BcacheDetachGate(backing_needs_detach, backing_detached',
                                         cache_needs_detach, cache_detached')
    ELSE UNCHANGED <<backing_detached, cache_detached, backing_detach_ran,
                     cache_detach_ran, next_btn>>

bcacheDetachFrame ==
    <<wizard, terminal, open, inventory, current_step, back_btn, finish_btn, result_label, worker,
      idle, drive_list, drive_sel, backing_list, backing_sel, cache_list, cache_sel,
      selected_backing, selected_cache, backing_needs_detach, cache_needs_detach,
      backing_wiped, cache_wiped, bcacheWorkerVars, notBcache>>

\* BcacheWizard._on_detach_backing; _update_detach_ui shows its button only
\* when the backing device needs detaching
BcacheOnDetachBacking ==
    /\ wizard = "bcache" /\ Interactive /\ current_step = BcacheDetach
    /\ backing_needs_detach
    /\ \E term \in {detect_terminal}, member \in SysfsMember :
          BcacheLaunchDetach(selected_backing, FALSE, term, member)
    /\ UNCHANGED bcacheDetachFrame

\* BcacheWizard._on_detach_cache
BcacheOnDetachCache ==
    /\ wizard = "bcache" /\ Interactive /\ current_step = BcacheDetach
    /\ cache_needs_detach /\ Truthy(selected_cache)
    /\ \E term \in {detect_terminal}, member \in SysfsMember :
          BcacheLaunchDetach(selected_cache, TRUE, term, member)
    /\ UNCHANGED bcacheDetachFrame

\* the terminal of _launch_detach exits and the handler runs to its end
BcacheDetachReturn ==
    /\ wizard = "bcache" /\ ui_wait.fn = "_launch_detach"
    /\ \E ok \in RunOutcome : (ok => ui_wait.exit # NoExit) /\ BcacheDetachReturned(ui_wait.flag, ok)
    /\ ui_wait' = NoWait
    /\ UNCHANGED <<error, last_cmd, bcacheDetachFrame>>

bcacheSelectFrame ==
    <<wizard, terminal, ui_wait, open, inventory, current_step, back_btn, next_btn, finish_btn, error,
      result_label, last_cmd, worker, idle, drive_list, drive_sel, selected_backing,
      selected_cache, backing_needs_detach, cache_needs_detach, backing_detached,
      cache_detached, backing_detach_ran, cache_detach_ran, backing_wiped, cache_wiped,
      bcacheWorkerVars, notBcache>>

\* the user selects a row of backing_list, or unselects it (SelectionMode.SINGLE)
BcacheSelectBacking ==
    /\ wizard = "bcache" /\ Interactive /\ current_step = BcacheBacking
    /\ \E i \in 0..Len(backing_list) : backing_sel' = i
    /\ UNCHANGED <<bcacheSelectFrame, backing_list, cache_list, cache_sel>>

\* the user selects a row of cache_list, or unselects it (SelectionMode.SINGLE)
BcacheSelectCache ==
    /\ wizard = "bcache" /\ Interactive /\ current_step = BcacheCache
    /\ \E i \in 0..Len(cache_list) : cache_sel' = i
    /\ UNCHANGED <<bcacheSelectFrame, backing_list, cache_list, backing_sel>>

\* a command builder that passes the cache argument whatever it is
build_command_with_cache(backing_device, cache_device) ==
    << [prog |-> "make-bcache", B |-> backing_device, C |-> cache_device] >>

\* BcacheManager.build_bcache_command
build_bcache_command(backing_device, cache_device) ==
    IF Truthy(cache_device)
    THEN << [prog |-> "make-bcache", B |-> backing_device, C |-> cache_device] >>
    ELSE << [prog |-> "make-bcache", B |-> backing_device] >>

bcacheWorkerFrame ==
    <<wizard, terminal, ui_wait, open, inventory, current_step, back_btn, next_btn, finish_btn, error,
      result_label, drive_list, drive_sel, backing_list, backing_sel, cache_list, cache_sel,
      selected_backing, selected_cache, backing_needs_detach, cache_needs_detach,
      backing_detached, cache_detached, backing_detach_ran, cache_detach_ran, backing_wiped,
      cache_wiped, notBcache>>

\* worker() of _run_bcache_creation, up to subprocess.run
BcacheWorkerLaunch ==
    /\ wizard = "bcache" /\ worker = "started"
    /\ \E term \in {detect_terminal} :
          IF ~term
          THEN /\ idle' = Append(idle, [fn |-> "_show_bcache_result", success |-> FALSE])
               /\ worker' = "done"
               /\ UNCHANGED last_cmd
          ELSE /\ last_cmd' = build_bcache_command(selected_backing, selected_cache)
               /\ worker' = "running"
               /\ UNCHANGED idle
    /\ UNCHANGED <<bcacheWorkerFrame, bcacheWorkerVars>>

\* worker(): subprocess.run returns, and the worker sleeps, or raises
BcacheWorkerExit ==
    /\ wizard = "bcache" /\ worker = "running"
    /\ \E ok \in RunOutcome, status \in ExitStatus \cup {NoExit} :
          /\ ok => status # NoExit      \* a terminal that returned ran its shell
          /\ term_returned' = ok
          /\ make_bcache_exit' = status
          /\ IF ok
             THEN worker' = "sleeping" /\ UNCHANGED idle
             ELSE /\ idle' = Append(idle, [fn |-> "_show_bcache_result", success |-> FALSE])
                  /\ worker' = "done"
    /\ UNCHANGED <<bcacheWorkerFrame, last_cmd, lsblk_read>>

\* a worker that lists the bcache devices without waiting for the terminal
BcacheWorkerRequeryEarly ==
    /\ wizard = "bcache" /\ worker \in {"running", "sleeping"}
    /\ lsblk_read' = inventory.lsblk
    /\ idle' = Append(idle, [fn |-> "_show_bcache_result",
                             success |-> (get_bcache_devices(inventory) # <<>>)])
    /\ worker' = "done"
    /\ UNCHANGED <<bcacheWorkerFrame, last_cmd, term_returned, make_bcache_exit>>

\* worker(): after the sleep, BcacheManager.get_bcache_devices decides
BcacheWorkerRequery ==
    /\ wizard = "bcache" /\ worker = "sleeping"
    /\ lsblk_read' = inventory.lsblk
    /\ idle' = Append(idle, [fn |-> "_show_bcache_result",
                             success |-> (get_bcache_devices(inventory) # <<>>)])
    /\ worker' = "done"
    /\ UNCHANGED <<bcacheWorkerFrame, last_cmd, term_returned, make_bcache_exit>>

\* BcacheWizard._show_bcache_result, run by the main loop
BcacheShowResult(success) ==
    /\ result_label' = IF success THEN "success" ELSE "failure"
    /\ finish_btn' = TRUE

\* ---------------------------------------------------------- FstabWizard

FstabIntro == 0
FstabDevice == 1
FstabFormat == 15      \* the step the source numbers 1.5
FstabMountPoint == 2
FstabFsType == 3
FstabOptions == 4
FstabLabel == 5
FstabReview == 6
FstabResult == 7

FsAuto == <<"a","u","t","o">>
FsExt4 == <<"e","x","t","4">>
FsXfs == <<"x","f","s">>
FsBtrfs == <<"b","t","r","f","s">>

\* the entries of fs_combo the user picks among
FsChoices == {FsAuto, FsExt4}

\* what the user may type in mp_entry, opt_entry and label_entry
MountPointTexts == { <<>>, <<"m">>, <<" ","/","m"," ">> }
OptionTexts == { <<>>, <<" ","r","o">> }
LabelTexts == { <<" ">>, <<"L">> }

Defaults == <<"d","e","f","a","u","l","t","s">>

\* stdout of lsblk -no FSTYPE / LABEL <dev> and of blkid -s UUID -o value
\* <dev>; QueryFailed when subprocess.run raises
QueryFailed == <<"raised">>
FstypeOutputs == { <<"\n">>, <<"e","x","t","4","\n">>, QueryFailed }
LabelOutputs == { <<>>, <<"d","\n">>, QueryFailed }
UuidOutputs == { <<>>, <<"\n">>, <<"u","1","\n">>, QueryFailed }

\* needs_format without the test for a Bcache device
NeedsFormatAnyDevice(dev, fstype_out) ==
    IF fstype_out = QueryFailed THEN TRUE ELSE Strip(fstype_out) = <<>>

\* the needs_format that _on_next computes at the Device step
NeedsFormat(dev, fstype_out) ==
    IF StartsWith(dev, BcachePrefix)
    THEN IF fstype_out = QueryFailed THEN TRUE ELSE Strip(fstype_out) = <<>>
    ELSE FALSE

\* default_mp of _show_step(2); selected: the device of the selected row of
\* drive_list, None when no row is selected
DefaultMountPoint(selected, label_out) ==
    LET label == IF label_out = QueryFailed THEN None ELSE Strip(label_out)
        mnt == <<"/","m","n","t","/">>
    IN  IF selected = None THEN mnt \o <<"d","a","t","a">>
        ELSE IF Truthy(label) THEN mnt \o label
        ELSE IF Truthy(Basename(selected)) THEN mnt \o Basename(selected)
        ELSE mnt \o <<"d","a","t","a">>

Tab == <<"\t">>

\* f"{source}\t{mp}\t{fs}\t{opts}\t0 2"
FstabLine(source, mp, fs, opts) ==
    source \o Tab \o mp \o Tab \o fs \o Tab \o opts \o Tab \o <<"0"," ","2">>

\* the line with the device path whatever blkid says
CommitLineRawDevice(device, mp, fs, opts, uuid_out) == FstabLine(device, mp, fs, opts)

\* the fstab_line of _on_next at the Review step
CommitLine(device, mp, fs, opts, uuid_out) ==
    LET uuid == IF uuid_out = QueryFailed THEN None ELSE Strip(uuid_out)
    IN  IF Truthy(uuid)
        THEN FstabLine(<<"U","U","I","D","=">> \o uuid, mp, fs, opts)
        ELSE FstabLine(device, mp, fs, opts)

\* FstabWizard._populate_review: the line shown
ReviewLine(device, mp, fs, opts) == FstabLine(device, mp, fs, opts)

\* cmds of _on_next at the Review step
CommitCmds(device, mp, fs, opts, label, uuid_out) ==
    (IF Truthy(label) /\ fs \in {FsExt4, FsXfs, FsBtrfs} /\ Truthy(device)
     THEN << [prog |-> "mkfs", fs |-> fs, label |-> label, device |-> device] >>
     ELSE << >>)
    \o (IF Truthy(mp) THEN << [prog |-> "mkdir", path |-> mp] >> ELSE << >>)
    \o << [prog |-> "tee_fstab", line |-> CommitLine(device, mp, fs, opts, uuid_out)] >>
    \o << [prog |-> "mount_all"] >>

\* a Format step that Next always leaves
FormatNeverBlocked(done) == FALSE

\* the test of _on_next at the Format step
FormatBlocked(done) == ~done

\* a mount point test without startswith
ValidMountPointAnyText(mp) == mp # <<>>

\* the test of _on_next at the Mount-point step, negated
ValidMountPoint(mp) == mp # <<>> /\ StartsWith(mp, <<"/">>)

SelectedRowDevice == IF drive_sel = {} THEN None ELSE drive_list[CHOOSE i \in drive_sel : TRUE]

\* FstabWizard._show_step
FstabShowStep(step) ==
    /\ current_step' = step
    /\ IF step = FstabDevice
       THEN drive_list' = PopulateDriveList(inventory) /\ drive_sel' = {}
       ELSE UNCHANGED <<drive_list, drive_sel>>
    /\ IF step = FstabFormat
       THEN format_done' = FALSE /\ format_on' = None
       ELSE UNCHANGED <<format_done, format_on>>
    /\ IF step = FstabMountPoint
       THEN \E label_out \in LabelOutputs :
               mp_entry' = DefaultMountPoint(SelectedRowDevice, label_out)
       ELSE UNCHANGED mp_entry
    /\ IF step = FstabReview
       THEN summary_line' = ReviewLine(selected_drive, mount_point, fs_type, mount_options)
       ELSE UNCHANGED summary_line
    /\ back_btn' = (step \notin {FstabIntro, FstabResult})
    /\ next_btn' = (step \notin {FstabFormat, FstabResult})
    /\ finish_btn' = IF step = FstabResult THEN TRUE ELSE finish_btn

fstabStepVars ==
    <<current_step, back_btn, next_btn, finish_btn, drive_list, drive_sel, format_done,
      format_on, mp_entry, summary_line>>

fstabFields ==
    <<selected_drive, needs_format, mount_point, fs_combo, fs_type, mount_options,
      volume_label, fstype_query, uuid_query>>

\* FstabWizard._on_next
FstabOnNext ==
    /\ wizard = "fstab" /\ Interactive
    /\ CASE current_step = FstabIntro ->
              /\ FstabShowStep(FstabDevice)
              /\ UNCHANGED <<error, fstabFields, result_label, last_cmd, ui_wait>>
         [] current_step = FstabDevice ->
              IF drive_sel = {}
              THEN /\ ShowError("Please select a drive to continue.")
                   /\ UNCHANGED <<fstabStepVars, fstabFields, result_label, last_cmd, ui_wait>>
              ELSE \E fstype_out \in FstypeOutputs :
                   /\ selected_drive' = SelectedRowDevice
                   /\ needs_format' = NeedsFormat(SelectedRowDevice, fstype_out)
                   /\ fstype_query' = IF StartsWith(SelectedRowDevice, BcachePrefix)
                                      THEN fstype_out ELSE None
                   /\ IF needs_format'
                      THEN FstabShowStep(FstabFormat)
                      ELSE FstabShowStep(FstabMountPoint)
                   /\ UNCHANGED <<error, mount_point, fs_combo, fs_type, mount_options,
                                  volume_label, uuid_query, result_label, last_cmd, ui_wait>>
         [] current_step = FstabFormat ->
              IF FormatBlocked(format_done)
              THEN /\ ShowError("You must format the bcache device before proceeding.")
                   /\ UNCHANGED <<fstabStepVars, fstabFields, result_label, last_cmd, ui_wait>>
              ELSE /\ FstabShowStep(FstabMountPoint)
                   /\ UNCHANGED <<error, fstabFields, result_label, last_cmd, ui_wait>>
         [] current_step = FstabMountPoint ->
              LET mp == Strip(mp_entry)
                 IN  IF ~ValidMountPoint(mp)
                     THEN /\ ShowError(
                                "Please enter a valid mount point (must start with /).")
                          /\ UNCHANGED <<fstabStepVars, fstabFields, result_label, last_cmd, ui_wait>>
                     ELSE /\ mount_point' = mp
                          /\ FstabShowStep(FstabFsType)
                          /\ UNCHANGED <<error, selected_drive, needs_format, fs_combo,
                                         fs_type, mount_options, volume_label, fstype_query,
                                         uuid_query, result_label, last_cmd, ui_wait>>
         [] current_step = FstabFsType ->
              \E fs \in FsChoices \cup {fs_combo} :
                 /\ fs_combo' = fs
                 /\ fs_type' = fs
                 /\ FstabShowStep(FstabOptions)
                 /\ UNCHANGED <<error, selected_drive, needs_format, mount_point,
                                mount_options, volume_label, fstype_query, uuid_query,
                                result_label, last_cmd, ui_wait>>
         [] current_step = FstabOptions ->
              \E text \in OptionTexts :
                 /\ mount_options' = IF Strip(text) # <<>> THEN Strip(text) ELSE Defaults
                 /\ FstabShowStep(FstabLabel)
                 /\ UNCHANGED <<error, selected_drive, needs_format, mount_point, fs_combo,
                                fs_type, volume_label, fstype_query, uuid_query,
                                result_label, last_cmd, ui_wait>>
         [] current_step = FstabLabel ->
              \E text \in LabelTexts :
                 /\ volume_label' = Strip(text)
                 /\ FstabShowStep(FstabReview)
                 /\ UNCHANGED <<error, selected_drive, needs_format, mount_point, fs_combo,
                                fs_type, mount_options, fstype_query, uuid_query,
                                result_label, last_cmd, ui_wait>>
         [] current_step = FstabReview ->
              \E term \in {detect_terminal}, uuid_out \in UuidOutputs :
                 IF ~term
                 THEN /\ ShowError(MsgNoTerminal)
                      /\ UNCHANGED <<fstabStepVars, fstabFields, result_label, last_cmd,
                                     ui_wait>>
                 ELSE /\ last_cmd' = CommitCmds(selected_drive, mount_point, fs_type,
                                                mount_options, volume_label, uuid_out)
                      /\ uuid_query' = uuid_out
                      /\ ui_wait' = Wait("_on_next", selected_drive, FALSE)
                      /\ UNCHANGED <<error, fstabStepVars, selected_drive, needs_format,
                                     mount_point, fs_combo, fs_type, mount_options,
                                     volume_label, fstype_query, result_label>>
         [] OTHER ->
              UNCHANGED <<fstabStepVars, fstabFields, error, result_label, last_cmd, ui_wait>>
    /\ UNCHANGED <<wizard, terminal, open, inventory, worker, idle, notFstab>>

\* _on_next at the Review step once subprocess.run returned (ok) or raised:
\* done_msg is set, then _show_step(7)
FstabCommitReturn ==
    /\ wizard = "fstab" /\ ui_wait.fn = "_on_next"
    /\ \E ok \in RunOutcome :
          /\ ok => ui_wait.exit # NoExit
          /\ result_label' = IF ok THEN "success" ELSE "failure"
    /\ FstabShowStep(FstabResult)
    /\ ui_wait' = NoWait
    /\ UNCHANGED <<wizard, terminal, open, inventory, error, last_cmd, worker, idle, fstabFields,
                   notFstab>>

\* FstabWizard._on_back
FstabOnBack ==
    /\ wizard = "fstab" /\ Interactive
    /\ CASE current_step = FstabDevice     -> FstabShowStep(FstabIntro)
         [] current_step = FstabMountPoint -> FstabShowStep(FstabDevice)
         [] current_step = FstabFsType     -> FstabShowStep(FstabMountPoint)
         [] current_step = FstabOptions    -> FstabShowStep(FstabFsType)
         [] current_step = FstabLabel      -> FstabShowStep(FstabOptions)
         [] OTHER -> UNCHANGED fstabStepVars
    /\ UNCHANGED <<wizard, terminal, ui_wait, open, inventory, error, result_label, last_cmd, worker, idle,
                   fstabFields, notFstab>>

MkfsCmd(fs, dev) == << [prog |-> "mkfs", fs |-> fs, device |-> dev] >>

fstabFormatFrame ==
    <<wizard, terminal, open, inventory, current_step, back_btn, finish_btn, result_label, worker,
      idle, drive_list, drive_sel, mp_entry, summary_line, fstabFields, notFstab>>

\* FstabWizard._on_format_bcache, the Format Device button of the Format
\* page, up to subprocess.run
FstabOnFormatBcache ==
    /\ wizard = "fstab" /\ Interactive /\ current_step = FstabFormat
    /\ \E term \in {detect_terminal} :
          IF ~term
          THEN /\ ShowError(MsgNoTerminal)
               /\ UNCHANGED <<last_cmd, ui_wait>>
          ELSE /\ last_cmd' = MkfsCmd(IF Truthy(fs_combo) THEN fs_combo ELSE FsExt4,
                                      IF Truthy(selected_drive) THEN selected_drive
                                      ELSE <<"/","d","e","v","/","n","u","l","l">>)
               /\ ui_wait' = Wait("_on_format_bcache", selected_drive, FALSE)
               /\ UNCHANGED error
    /\ UNCHANGED <<format_done, format_on, next_btn, fstabFormatFrame>>

\* _on_format_bcache once subprocess.run returned (ok) or raised
FstabFormatReturn ==
    /\ wizard = "fstab" /\ ui_wait.fn = "_on_format_bcache"
    /\ \E ok \in RunOutcome :
          /\ ok => ui_wait.exit # NoExit
          /\ IF ok
             THEN format_done' = TRUE /\ format_on' = selected_drive /\ next_btn' = TRUE
             ELSE UNCHANGED <<format_done, format_on, next_btn>>
    /\ ui_wait' = NoWait
    /\ UNCHANGED <<error, last_cmd, fstabFormatFrame>>

\* the user types in mp_entry
FstabEditMountPoint ==
    /\ wizard = "fstab" /\ Interactive /\ current_step = FstabMountPoint
    /\ \E text \in MountPointTexts : mp_entry' = text
    /\ UNCHANGED <<wizard, terminal, ui_wait, open, inventory, current_step, back_btn, next_btn, finish_btn,
                   error, result_label, last_cmd, worker, idle, drive_list, drive_sel,
                   selected_drive, needs_format, format_done, format_on, mount_point,
                   fs_combo, fs_type, mount_options, volume_label, summary_line,
                   fstype_query, uuid_query, notFstab>>

\* the user selects a row of drive_list, or unselects it (SelectionMode.SINGLE)
FstabSelectDrive ==
    /\ wizard = "fstab" /\ Interactive /\ current_step = FstabDevice
    /\ \E i \in 0..Len(drive_list) : drive_sel' = IF i = 0 THEN {} ELSE {i}
    /\ UNCHANGED <<wizard, terminal, ui_wait, open, inventory, current_step, back_btn, next_btn, finish_btn,
                   error, result_label, last_cmd, worker, idle, drive_list, wizardVars>>

\* ------------------------------------------------------ BenchmarkWizard

BenchIntro == 0
BenchDevice == 1
BenchType == 2
BenchOptions == 3
BenchReview == 4
BenchResult == 5

\* the rows of type_list, by get_index()
TestTypeLabels == <<"Sequential Read", "Sequential Write", "Random Read", "Random Write">>

\* what the user may leave in size_entry
SizeTexts == { <<"1","G">>, <<"2","m">>, <<"2">>, <<"1","2">>, <<" ">> }

IsDigit(c) == \E i \in 1..10 : Digits[i] = c

DigitValue(c) == (CHOOSE i \in 1..10 : Digits[i] = c) - 1

RECURSIVE DecimalValue(_)
DecimalValue(s) ==
    IF s = <<>> THEN 0 ELSE 10 * DecimalValue(SubSeq(s, 1, Len(s) - 1)) + DigitValue(s[Len(s)])

ValueError == -1

\* int(float(s)) for a text of decimal digits; float raises ValueError on the
\* empty text and on a text that is no number
IntOfFloat(s) ==
    IF s # <<>> /\ \A i \in 1..Len(s) : IsDigit(s[i]) THEN DecimalValue(s) ELSE ValueError

Gigabyte == 1024
FallbackCount == 1024

\* the count _on_next derives from the size text: the conditional expression
\* that is evaluated first, then the if / elif / else that overwrites it
BlockCount(size) ==
    LET number == IntOfFloat(SubSeq(size, 1, Len(size) - 1))
        first == IF EndsWith(Lower(size), <<"g">>)
                 THEN (IF number = ValueError THEN ValueError ELSE number * Gigabyte)
                 ELSE number
    IN  IF first = ValueError THEN ValueError
        ELSE IF EndsWith(Lower(size), <<"g">>) THEN number * Gigabyte
        ELSE IF EndsWith(Lower(size), <<"m">>) THEN number
        ELSE FallbackCount

\* BenchmarkResultsHelper.load_results; results_file is the list of records
\* benchmarks.json holds, empty when the file is missing or unreadable; the
\* records hold strings only, which json.dump and json.load give back as
\* they were
load_results(file) == file

\* a writer that adds the last record of results to what the file holds
dump_appended(file, results) == Append(file, results[Len(results)])

\* open(RESULTS_FILE, "w") and pyjson.dump(results, f): what the file held
\* is replaced by results
dump_results(file, results) == results

\* BenchmarkResultsHelper.save_result, run without interruption
save_result(file, rec) == dump_results(file, Append(load_results(file), rec))

\* a history display that does not filter
get_all_results(file, device) == load_results(file)

\* BenchmarkResultsHelper.get_results_for_device
get_results_for_device(file, device) ==
    SelectSeq(load_results(file), LAMBDA r : r.device = device)

\* a _show_step that leaves Next on at the Result step
BenchShowStepNextStaysOn(step) ==
    /\ current_step' = step
    /\ IF step = BenchDevice
       THEN drive_list' = PopulateDriveList(inventory) /\ drive_sel' = {}
       ELSE UNCHANGED <<drive_list, drive_sel>>
    /\ back_btn' = (step \in BenchDevice..BenchReview)
    /\ next_btn' = TRUE
    /\ finish_btn' = IF step = BenchResult THEN TRUE ELSE finish_btn

\* BenchmarkWizard._show_step
BenchShowStep(step) ==
    /\ current_step' = step
    /\ IF step = BenchDevice
       THEN drive_list' = PopulateDriveList(inventory) /\ drive_sel' = {}
       ELSE UNCHANGED <<drive_list, drive_sel>>
    /\ back_btn' = (step \in BenchDevice..BenchReview)
    /\ next_btn' = (step # BenchResult)
    /\ finish_btn' = IF step = BenchResult THEN TRUE ELSE finish_btn

benchStepVars == <<current_step, back_btn, next_btn, finish_btn, drive_list, drive_sel>>

benchFields == <<selected_drive, test_type, test_options, result, results_file>>

\* every row of type_list
AnyTestType == {0, 1, 2, 3}

\* the test types _on_next composes a dd command for
SupportedTestTypes == {0, 1}

MsgUnsupported == "Only sequential read/write tests are supported in this version."
MsgNoMountPoint == "Could not determine a valid mount point for this drive."

BenchDdCmd(mode, count) == << [prog |-> "dd", mode |-> mode, count |-> count] >>

\* BenchmarkWizard._on_next at the Review step.  mounted: lsblk names a mount
\* point that is a directory; created: the dd that makes the file to read
\* leaves one; term: a terminal emulator is found
BenchRunTest(mounted, created, term) ==
    LET size == IF test_options = None THEN <<"1","G">> ELSE test_options
        count == BlockCount(size)
        exists == IF test_type = 0 /\ ~testfile THEN created ELSE testfile
    IN  IF ~Truthy(selected_drive)
        THEN /\ ShowError("No valid drive selected.")
             /\ UNCHANGED <<benchStepVars, benchFields, testfile, last_cmd, ui_wait>>
        ELSE IF ~mounted
        THEN /\ ShowError(MsgNoMountPoint)
             /\ UNCHANGED <<benchStepVars, benchFields, testfile, last_cmd, ui_wait>>
        ELSE IF count = ValueError
        THEN \* float() raises: the handler ends with the exception
             UNCHANGED <<error, benchStepVars, benchFields, testfile, last_cmd, ui_wait>>
        ELSE IF test_type \notin SupportedTestTypes
        THEN /\ ShowError(MsgUnsupported)
             /\ UNCHANGED <<benchStepVars, benchFields, testfile, last_cmd, ui_wait>>
        ELSE IF ~term
        THEN /\ ShowError(MsgNoTerminal)
             /\ testfile' = exists
             /\ UNCHANGED <<benchStepVars, benchFields, last_cmd, ui_wait>>
        ELSE /\ last_cmd' = BenchDdCmd(IF test_type = 0 THEN "read" ELSE "write", count)
             /\ testfile' = exists
             \* the flag keeps whether the file was there when Next was clicked
             /\ ui_wait' = Wait("_on_next", selected_drive, testfile)
             /\ UNCHANGED <<error, benchStepVars, benchFields>>

\* _on_next at the Review step once subprocess.run returned (ok) or raised
BenchRunReturned(ok) ==
    LET rec == [device |-> selected_drive, test_type |-> TestTypeLabels[type_sel],
                options |-> test_options, summary |-> "(See terminal for actual speed)"]
    IN  IF ~ok
        THEN /\ ShowError("Failed to launch terminal")
             /\ UNCHANGED <<benchStepVars, benchFields, testfile>>
        ELSE /\ testfile' = FALSE          \* sync; rm -f <testfile>
             /\ results_file' = save_result(results_file, rec)
             /\ result' = <<rec>>
             /\ BenchShowStep(BenchResult)
             /\ UNCHANGED <<error, selected_drive, test_type, test_options>>

\* the terminal of the benchmark exits and _on_next runs to its end
BenchRunReturn ==
    /\ wizard = "benchmark" /\ ui_wait.fn = "_on_next"
    /\ \E ok \in RunOutcome : (ok => ui_wait.exit # NoExit) /\ BenchRunReturned(ok)
    /\ ui_wait' = NoWait
    /\ UNCHANGED <<wizard, terminal, open, inventory, result_label, last_cmd, worker, idle, type_sel,
                   notBench>>

\* BenchmarkWizard._on_next
BenchOnNext ==
    /\ wizard = "benchmark" /\ Interactive
    /\ CASE current_step = BenchIntro ->
              /\ BenchShowStep(BenchDevice)
              /\ UNCHANGED <<error, benchFields, testfile, last_cmd, ui_wait>>
         [] current_step = BenchDevice ->
              IF drive_sel = {}
              THEN /\ ShowError("Please select a drive to continue.")
                   /\ UNCHANGED <<benchStepVars, benchFields, testfile, last_cmd, ui_wait>>
              ELSE /\ selected_drive' = SelectedRowDevice
                   /\ BenchShowStep(BenchType)
                   /\ UNCHANGED <<error, test_type, test_options, result, results_file,
                                  testfile, last_cmd, ui_wait>>
         [] current_step = BenchType ->
              IF type_sel = 0
              THEN /\ ShowError("Please select a test type.")
                   /\ UNCHANGED <<benchStepVars, benchFields, testfile, last_cmd, ui_wait>>
              ELSE /\ test_type' = type_sel - 1
                   /\ BenchShowStep(BenchOptions)
                   /\ UNCHANGED <<error, selected_drive, test_options, result, results_file,
                                  testfile, last_cmd, ui_wait>>
         [] current_step = BenchOptions ->
              \E text \in SizeTexts :
                 /\ test_options' = Strip(text)
                 /\ BenchShowStep(BenchReview)
                 /\ UNCHANGED <<error, selected_drive, test_type, result, results_file,
                                testfile, last_cmd, ui_wait>>
         [] current_step = BenchReview ->
              \E mounted \in BOOLEAN, created \in BOOLEAN, term \in {detect_terminal} :
                 BenchRunTest(mounted, created, term)
         [] OTHER ->
              UNCHANGED <<benchStepVars, benchFields, error, testfile, last_cmd, ui_wait>>
    /\ UNCHANGED <<wizard, terminal, open, inventory, result_label, worker, idle, type_sel, notBench>>

\* BenchmarkWizard._on_back
BenchOnBack ==
    /\ wizard = "benchmark" /\ Interactive
    /\ CASE current_step = BenchDevice  -> BenchShowStep(BenchIntro)
         [] current_step = BenchType    -> BenchShowStep(BenchDevice)
         [] current_step = BenchOptions -> BenchShowStep(BenchType)
         [] current_step = BenchReview  -> BenchShowStep(BenchOptions)
         [] OTHER -> UNCHANGED benchStepVars
    /\ UNCHANGED <<wizard, terminal, ui_wait, open, inventory, error, result_label, last_cmd, worker, idle,
                   selected_drive, benchVars, notBench>>

\* the user selects a row of drive_list, or unselects it (SelectionMode.SINGLE)
BenchSelectDrive ==
    /\ wizard = "benchmark" /\ Interactive /\ current_step = BenchDevice
    /\ \E i \in 0..Len(drive_list) : drive_sel' = IF i = 0 THEN {} ELSE {i}
    /\ UNCHANGED <<wizard, terminal, ui_wait, open, inventory, current_step, back_btn, next_btn, finish_btn,
                   error, result_label, last_cmd, worker, idle, drive_list, wizardVars>>

\* the user selects a row of type_list, or unselects it (SelectionMode.SINGLE)
BenchSelectType ==
    /\ wizard = "benchmark" /\ Interactive /\ current_step = BenchType
    /\ \E i \in 0..Len(TestTypeLabels) : type_sel' = i
    /\ UNCHANGED <<wizard, terminal, ui_wait, open, inventory, current_step, back_btn, next_btn, finish_btn,
                   error, result_label, last_cmd, worker, idle, drive_list, drive_sel,
                   selected_drive, test_type, test_options, result, results_file, testfile,
                   notBench>>

\* ---------------------------------------------------------- SmartWizard

SmartIntro == 0
SmartDevice == 1
SmartType == 2
SmartResult == 3

\* what DriveInfo.get_smart_info can return: smartctl missing, or a health
SmartInfos == {"unavailable", "passed", "failed"}

\* everything that is not a field of SmartWizard or DriveDetailWindow
notSmart ==
    <<raidVars, bcacheVars, needs_format, format_done, format_on, mp_entry, mount_point,
      fs_combo, fs_type, mount_options, volume_label, summary_line, fstype_query,
      uuid_query, benchVars, saveVars, infoVars>>

\* SmartWizard._show_step
SmartShowStep(step) ==
    /\ current_step' = step
    /\ IF step = SmartDevice
       THEN drive_list' = Names(get_drives(inventory)) /\ drive_sel' = {}
       ELSE UNCHANGED <<drive_list, drive_sel>>
    /\ back_btn' = (step \in {SmartDevice, SmartType})
    /\ next_btn' = (step # SmartResult)
    /\ finish_btn' = IF step = SmartResult THEN FALSE ELSE finish_btn

smartStepVars == <<current_step, back_btn, next_btn, finish_btn, drive_list, drive_sel>>

\* SmartWizard._run_smart_test, up to the start of the worker thread
SmartRunTest ==
    /\ result_label' = "wait"
    /\ worker' = "started"

\* SmartWizard._on_next
SmartOnNext ==
    /\ wizard = "smart" /\ Interactive
    /\ CASE current_step = SmartIntro ->
              /\ SmartShowStep(SmartDevice)
              /\ UNCHANGED <<error, selected_drive, selected_test, result_label, worker>>
         [] current_step = SmartDevice ->
              IF drive_sel = {}
              THEN /\ ShowError("Please select a drive to continue.")
                   /\ UNCHANGED <<smartStepVars, selected_drive, selected_test, result_label,
                                  worker>>
              ELSE /\ selected_drive' = SelectedRowDevice
                   /\ SmartShowStep(SmartType)
                   /\ UNCHANGED <<error, selected_test, result_label, worker>>
         [] current_step = SmartType ->
              IF test_sel = 0
              THEN /\ ShowError("Please select a test type.")
                   /\ UNCHANGED <<smartStepVars, selected_drive, selected_test, result_label,
                                  worker>>
              ELSE /\ selected_test' = (IF test_sel - 1 = 0 THEN "short" ELSE "long")
                   /\ SmartShowStep(SmartResult)
                   /\ SmartRunTest
                   /\ UNCHANGED <<error, selected_drive>>
         [] OTHER ->
              UNCHANGED <<smartStepVars, error, selected_drive, selected_test, result_label,
                          worker>>
    /\ UNCHANGED <<wizard, terminal, ui_wait, open, inventory, last_cmd, idle, test_sel, test_success,
                   smart_read, content, loaders, toasts, notSmart>>

\* SmartWizard._on_back; the clicked signal comes only from a sensitive button
SmartOnBack ==
    /\ wizard = "smart" /\ Interactive /\ back_btn
    /\ CASE current_step = SmartDevice -> SmartShowStep(SmartIntro)
         [] current_step = SmartType   -> SmartShowStep(SmartDevice)
         [] current_step = SmartResult -> SmartShowStep(SmartType)
         [] OTHER -> UNCHANGED smartStepVars
    /\ UNCHANGED <<wizard, terminal, ui_wait, open, inventory, error, result_label, last_cmd, worker,
                   idle, selected_drive, smartVars, notSmart>>

smartSelectFrame ==
    <<wizard, terminal, ui_wait, open, inventory, current_step, back_btn, next_btn, finish_btn, error,
      result_label, last_cmd, worker, idle, drive_list, selected_drive, selected_test,
      test_success, smart_read, content, loaders, toasts, notSmart>>

\* the user selects a row of drive_list, or unselects it (SelectionMode.SINGLE)
SmartSelectDrive ==
    /\ wizard = "smart" /\ Interactive /\ current_step = SmartDevice
    /\ \E i \in 0..Len(drive_list) : drive_sel' = IF i = 0 THEN {} ELSE {i}
    /\ UNCHANGED <<smartSelectFrame, test_sel>>

\* the user selects a row of test_type_list (short, long), or unselects it
SmartSelectTest ==
    /\ wizard = "smart" /\ Interactive /\ current_step = SmartType
    /\ \E i \in 0..2 : test_sel' = i
    /\ UNCHANGED <<smartSelectFrame, drive_sel>>

SmartctlCmd(option, device) == << [prog |-> "smartctl", option |-> option, device |-> device] >>

\* the drive a DriveDetailWindow was opened for: drive_data['name']
DetailDrive == DevPrefix \o NameSda

smartWorkerFrame ==
    <<wizard, terminal, ui_wait, open, inventory, current_step, back_btn, next_btn, finish_btn, error,
      result_label, drive_list, drive_sel, selected_drive, test_sel, selected_test, notSmart>>

\* DriveInfo.run_smart_test on the worker thread of SmartWizard._run_smart_test
\* or of DriveDetailWindow._run_test_and_refresh, up to subprocess.run;
\* without smartctl or without a terminal it returns False at once
SmartTestLaunch ==
    /\ wizard \in {"smart", "detail"} /\ worker = "started"
    /\ \E available \in BOOLEAN, term \in {detect_terminal} :
          IF ~available \/ ~term
          THEN /\ test_success' = FALSE
               /\ worker' = "sleeping"
               /\ UNCHANGED last_cmd
          ELSE /\ last_cmd' = SmartctlCmd(selected_test,
                                          IF wizard = "smart" THEN selected_drive
                                          ELSE DetailDrive)
               /\ worker' = "running"
               /\ UNCHANGED test_success
    /\ UNCHANGED <<smartWorkerFrame, idle, smart_read, content, loaders, toasts>>

\* DriveInfo.run_smart_test: subprocess.run returns or raises; the worker
\* then sleeps
SmartTestExit ==
    /\ wizard \in {"smart", "detail"} /\ worker = "running"
    /\ \E ok \in RunOutcome : test_success' = ok
    /\ worker' = "sleeping"
    /\ UNCHANGED <<smartWorkerFrame, last_cmd, idle, smart_read, content, loaders, toasts>>

\* worker() of _run_smart_test after the sleep: get_smart_info, then idle_add
SmartWorkerQuery ==
    /\ wizard = "smart" /\ worker = "sleeping"
    /\ \E info \in SmartInfos :
          /\ smart_read' = info
          /\ idle' = Append(idle, [fn |-> "_show_smart_result", success |-> test_success,
                                   smart |-> info])
    /\ worker' = "done"
    /\ UNCHANGED <<smartWorkerFrame, last_cmd, test_success, content, loaders, toasts>>

\* SmartWizard._show_smart_result, run by the main loop
SmartShowResult ==
    /\ wizard = "smart" /\ idle # <<>> /\ ui_wait = NoWait
    /\ Head(idle).fn = "_show_smart_result"
    /\ result_label' = IF Head(idle).success THEN "success" ELSE "failure"
    /\ finish_btn' = TRUE
    /\ idle' = Tail(idle)
    /\ UNCHANGED <<wizard, terminal, ui_wait, open, inventory, current_step, back_btn, next_btn, error,
                   last_cmd, worker, drive_list, drive_sel, wizardVars>>

\* on_show_smart_terminal, the button _show_smart_result adds when a drive
\* is selected, up to subprocess.run; without a terminal it returns
SmartShowTerminal ==
    /\ wizard = "smart" /\ Interactive /\ current_step = SmartResult
    /\ result_label \in {"success", "failure"} /\ Truthy(selected_drive)
    /\ \E term \in {detect_terminal} :
          IF ~term
          THEN UNCHANGED <<last_cmd, ui_wait>>
          ELSE /\ last_cmd' = SmartctlCmd("-A", selected_drive)
               /\ ui_wait' = Wait("on_show_smart_terminal", selected_drive, FALSE)
    /\ UNCHANGED <<wizard, terminal, open, inventory, current_step, back_btn, next_btn, finish_btn,
                   error, result_label, worker, idle, drive_list, drive_sel, wizardVars>>

\* on_show_smart_terminal once subprocess.run returned or raised
SmartShowReturn ==
    /\ wizard = "smart" /\ ui_wait.fn = "on_show_smart_terminal"
    /\ ui_wait' = NoWait
    /\ UNCHANGED <<wizard, terminal, open, inventory, current_step, back_btn, next_btn, finish_btn,
                   error, result_label, last_cmd, worker, idle, drive_list, drive_sel,
                   wizardVars>>

\* ---------------------------------------------------- DriveDetailWindow

\* the toasts and queued callbacks the model lets pile up
MaxToasts == 2
MaxQueued == 2

detailFrame ==
    <<wizard, terminal, ui_wait, open, inventory, current_step, back_btn, next_btn, finish_btn, error,
      result_label, drive_list, drive_sel, selected_drive, test_sel, notSmart>>

\* DriveDetailWindow._run_test_and_refresh, up to the start of the thread;
\* one test thread at a time
DetailRunTestAndRefresh ==
    /\ wizard = "detail" /\ Interactive /\ worker \in {"none", "done"}
    /\ toasts < MaxToasts /\ Len(idle) + loaders < MaxQueued
    /\ \E type \in {"short", "long"} : selected_test' = type
    /\ worker' = "started"
    /\ UNCHANGED <<detailFrame, last_cmd, idle, test_success, smart_read, content, loaders,
                   toasts>>

\* run_and_refresh after the sleep: idle_add(self.load_details), then the
\* toast is made and added to toast_overlay by this thread
DetailTestRefresh ==
    /\ wizard = "detail" /\ worker = "sleeping"
    /\ idle' = Append(idle, [fn |-> "load_details", smart |-> NoInfo])
    /\ toasts' = toasts + 1
    /\ worker' = "done"
    /\ UNCHANGED <<detailFrame, last_cmd, selected_test, test_success, smart_read, content,
                   loaders>>

\* DriveDetailWindow._load_data_thread
DetailLoadDataThread ==
    /\ wizard = "detail" /\ loaders > 0
    /\ \E info \in SmartInfos :
          /\ smart_read' = info
          /\ idle' = Append(idle, [fn |-> "_update_ui", smart |-> info])
    /\ loaders' = loaders - 1
    /\ UNCHANGED <<detailFrame, last_cmd, worker, selected_test, test_success, content,
                   toasts>>

\* the main loop runs the oldest queued callback: load_details shows the
\* spinner and starts a _load_data_thread, _update_ui shows the details
DetailIdleDispatch ==
    /\ wizard = "detail" /\ idle # <<>> /\ ui_wait = NoWait
    /\ IF Head(idle).fn = "load_details"
       THEN content' = "loading" /\ loaders' = loaders + 1
       ELSE content' = Head(idle).smart /\ UNCHANGED loaders
    /\ idle' = Tail(idle)
    /\ UNCHANGED <<detailFrame, last_cmd, worker, selected_test, test_success, smart_read,
                   toasts>>

\* a toast's timeout ends (toast.set_timeout(6))
DetailToastTimeout ==
    /\ wizard = "detail" /\ open /\ toasts > 0
    /\ toasts' = toasts - 1
    /\ UNCHANGED <<detailFrame, last_cmd, worker, idle, selected_test, test_success,
                   smart_read, content, loaders>>

\* ----------------------------------------------- BenchmarkResultsHelper

\* the DarkDiskz processes of one user that write benchmarks.json
Writers == {1, 2}

\* the save_result calls the model follows
MaxSaves == 3

BenchDevices == {DevPrefix \o NameSda, DevPrefix \o NameSdb}

\* a process outside save_result
\* raced: another process was between its read and its write at some time
\* between this process's last read and its write (history)
NotSaving == [pc |-> "idle", results |-> <<>>, raced |-> FALSE]

\* the result BenchmarkWizard._on_next builds at the Review step
BenchRecord(device, now) ==
    [device |-> device, timestamp |-> now, summary |-> "(See terminal for actual speed)"]

saveFrame ==
    <<wizard, terminal, ui_wait, open, inventory, current_step, back_btn, next_btn, finish_btn, error,
      result_label, last_cmd, worker, idle, drive_list, drive_sel, selected_drive,
      raidVars, bcacheVars, needs_format, format_done, format_on, mp_entry, mount_point,
      fs_combo, fs_type, mount_options, volume_label, summary_line, fstype_query,
      uuid_query, type_sel, test_type, test_options, result, testfile, smartVars>>

\* save_result in process w: load_results, then results.append(result)
SaveLoad(w) ==
    /\ saving[w].pc = "idle" /\ clock < MaxSaves
    /\ \E device \in BenchDevices :
          saving' = [v \in Writers |->
                        IF v = w
                        THEN [pc |-> "loaded",
                              results |-> Append(load_results(results_file),
                                                 BenchRecord(device, clock + 1)),
                              raced |-> \E u \in Writers \ {w} : saving[u].pc = "loaded"]
                        ELSE IF saving[v].pc = "loaded"
                             THEN [saving[v] EXCEPT !.raced = TRUE]
                             ELSE saving[v]]
    /\ clock' = clock + 1
    /\ interleaved' = (interleaved \/ \E v \in Writers \ {w} : saving[v].pc = "loaded")
    /\ UNCHANGED <<saveFrame, infoVars, results_file, saved>>

\* save_result in process w: the file is opened for writing and dumped
SaveDump(w) ==
    /\ saving[w].pc = "loaded"
    /\ results_file' = dump_results(results_file, saving[w].results)
    /\ saving' = [saving EXCEPT ![w].pc = "idle"]
    /\ saved' = Append(saved, saving[w].results[Len(saving[w].results)])
    /\ UNCHANGED <<saveFrame, infoVars, clock, interleaved>>

\* ------------------------------------------------ DriveInfo.get_smart_info

\* the frames Python allows get_smart_info to nest before RecursionError
\* (sys.getrecursionlimit() in the program, kept small here)
RecursionLimit == 3

\* subprocess.run(["which", "smartctl"], check=True): smartctl found,
\* CalledProcessError (not found), or another exception (which itself
\* cannot be run)
ProbeOutcomes == {"found", "not_found", "raised"}

\* smartctl -H -A: return code 0 or 4 with or without PASSED in the output,
\* return code 1 with "Permission denied", another return code, or
\* subprocess.run raises
QueryOutcomes == {"ok", "ok_no_pass", "denied", "failed", "raised"}

\* sudo smartctl -H -A: return code 0 or 4, another return code, or raises
SudoOutcomes == {"ok", "failed", "raised"}

\* the dictionaries get_smart_info returns
Unavailable(output) == [available |-> FALSE, output |-> output, health |-> "None"]
Available(health) == [available |-> TRUE, output |-> "smartctl output", health |-> health]
NoResult == [available |-> FALSE, output |-> "none", health |-> "None"]

\* no call under way.  pc: the statement the innermost frame is at; depth:
\* the nested get_smart_info frames below the first; probes, queries, sudos:
\* the commands the call has run so far; result: what the call returned
NoCall ==
    [pc |-> "idle", device |-> None, depth |-> 0, probes |-> 0, queries |-> 0,
     sudos |-> 0, result |-> NoResult]

infoFrame == <<saveFrame, results_file, saveVars>>

\* the drives the windows ask SMART information for
InfoDevices == {DevPrefix \o NameSda, DevPrefix \o NameSdb, DevPrefix \o NameSdc}

\* ------------------------------------- DriveInfo.get_technical_details

NameNvme == <<"n","v","m","e","0","n","1">>
TranNvme == <<"n","v","m","e">>

\* a key udevadm did not print
Absent == <<"absent">>

Rpm0 == <<"0">>
Rpm7200 == <<"7","2","0","0">>

Speed2 == <<"2",".","5"," ","G","T","/","s">>
Speed8 == <<"8",".","0"," ","G","T","/","s">>
Speed16 == <<"1","6",".","0"," ","G","T","/","s">>
Speed32 == <<"3","2",".","0"," ","G","T","/","s">>

\* a dict with no key
Empty == [k \in {} |-> None]

Get(d, k, default) == IF k \in DOMAIN d THEN d[k] ELSE default

\* the rotation speed line with NVMe tested before the rotational flag
RotationSpeedNvmeFirst(is_rotational, is_nvme, details) ==
    IF is_nvme THEN <<"P","C","I","e"," ","G","e","n"," ","3"," ","(","N","V","M","e",")">>
    ELSE IF is_rotational THEN <<"U","n","k","n","o","w","n"," ","(","H","D","D",")">>
    ELSE <<"S","o","l","i","d"," ","S","t","a","t","e"," ","(","S","S","D",")">>

\* lines 272-291: the value stored under 'rotation_speed'
RotationSpeed(is_rotational, is_nvme, details) ==
    IF is_rotational
    THEN IF Get(details, "rpm", None) # None /\ details["rpm"] # <<>> /\ details["rpm"] # Rpm0
         THEN details["rpm"] \o <<" ","r","p","m">>
         ELSE <<"U","n","k","n","o","w","n"," ","(","H","D","D",")">>
    ELSE IF is_nvme
    THEN LET link == Get(details, "link_speed", None)
             gen == IF Truthy(link)
                    THEN IF Contains(link, <<"8",".","0">>) THEN <<"P","C","I","e"," ","G","e","n"," ","3">>
                         ELSE IF Contains(link, <<"1","6",".","0">>) THEN <<"P","C","I","e"," ","G","e","n"," ","4">>
                         ELSE IF Contains(link, <<"3","2",".","0">>) THEN <<"P","C","I","e"," ","G","e","n"," ","5">>
                         ELSE <<"U","n","k","n","o","w","n">>
                    ELSE <<"U","n","k","n","o","w","n">>
         IN  gen \o <<" ","(","N","V","M","e",")">>
    ELSE <<"S","o","l","i","d"," ","S","t","a","t","e"," ","(","S","S","D",")">>

\* the except clause of line 308: the keys stored so far, and 'error'
WithError(details) == ("error" :> "exception") @@ details

\* DriveInfo.get_technical_details(device) over what its five probes give
get_technical_details(device, p) ==
    LET devname == IF StartsWith(device, DevPrefix)
                   THEN SubSeq(device, Len(DevPrefix) + 1, Len(device)) ELSE device
        lsblkFields ==
            IF p.lsblk.found
            THEN ("rotation" :> p.lsblk.rota) @@ ("transport" :> p.lsblk.tran)
                 @@ ("partition_table" :> None) @@ ("removable" :> FALSE)
                 @@ ("model" :> None)
            ELSE Empty
        trimFields == IF p.trim = "ok" THEN ("trim" :> "discard") ELSE Empty
        udevFields ==
            IF p.udev.status = "ok"
            THEN (IF p.udev.rpm # Absent THEN ("rpm" :> p.udev.rpm) ELSE Empty)
                 @@ (IF p.udev.link_speed # Absent
                     THEN ("link_speed" :> p.udev.link_speed) ELSE Empty)
            ELSE Empty
        probed == udevFields @@ trimFields @@ lsblkFields
        nameIsNvme == Contains(Lower(devname), TranNvme)
        transport == Get(probed, "transport", <<>>)
        is_nvme == nameIsNvme \/ Lower(transport) = TranNvme
        is_rotational == Get(probed, "rotation", FALSE)
        trimmed == IF is_nvme THEN ("trim" :> "Supported") @@ probed ELSE probed
        summed == ("rotation_speed" :> RotationSpeed(is_rotational, is_nvme, trimmed))
                  @@ trimmed
    IN  IF p.lsblk.status # "ok" THEN WithError(Empty)
        ELSE IF p.trim \in {"raised", "garbled"} THEN WithError(lsblkFields)
        ELSE IF ~nameIsNvme /\ transport = None THEN WithError(probed)
        ELSE ("in_raid" :> (p.mdstat = "member")) @@ ("in_bcache" :> (p.bcache = "yes"))
             @@ summed

\* lsblk -d -J -o ...: subprocess.run raises (check=True), json.loads raises,
\* or the rows are decoded and the device is among them or not
LsblkProbes ==
    { [status |-> st, found |-> FALSE, rota |-> FALSE, tran |-> None] :
        st \in {"raised", "garbled", "ok"} }
      \cup { [status |-> "ok", found |-> TRUE, rota |-> ro, tran |-> tr] :
               ro \in BOOLEAN, tr \in {TranSata, TranNvme, None} }

\* lsblk -D -J <device>: the launch raises, stdout is no JSON (lsblk failed),
\* no device in it, or a device with its discard column
TrimProbes == {"raised", "garbled", "none", "ok"}

\* udevadm info: the launch raises, or the lines are scanned
UdevProbes ==
    { [status |-> "raised", rpm |-> Absent, link_speed |-> Absent] }
      \cup { [status |-> "ok", rpm |-> r, link_speed |-> l] :
               r \in {Absent, Rpm0, Rpm7200},
               l \in {Absent, Speed2, Speed8, Speed16, Speed32} }

\* open('/proc/mdstat') raises, or the text holds the device's name or not
MdstatProbes == {"raised", "member", "other"}

\* ls /sys/block/<dev>/bcache: the launch raises, exit 0, or another exit
BcacheProbes == {"raised", "yes", "no"}

TechProbes ==
    [lsblk : LsblkProbes, trim : TrimProbes, udev : UdevProbes, mdstat : MdstatProbes,
     bcache : BcacheProbes]

TechDevices == {DevPrefix \o NameSda, DevPrefix \o NameNvme}

\* no call made yet
NoTech ==
    [pc |-> "idle", device |-> None,
     probes |-> [lsblk |-> [status |-> "none", found |-> FALSE, rota |-> FALSE, tran |-> None],
                 trim |-> "none", udev |-> [status |-> "none", rpm |-> Absent,
                                            link_speed |-> Absent],
                 mdstat |-> "none", bcache |-> "none"],
     details |-> Empty]

\* DriveDetailWindow calls get_technical_details(device)
TechCall ==
    /\ tech.pc = "idle"
    /\ \E device \in TechDevices, p \in TechProbes :
          tech' = [pc |-> "returned", device |-> device, probes |-> p,
                   details |-> get_technical_details(device, p)]
    /\ UNCHANGED <<infoFrame, smart_call, listing, raid_arrays>>

\* the window has shown the details; the next refresh calls again
TechShown ==
    /\ tech.pc = "returned"
    /\ tech' = NoTech
    /\ UNCHANGED <<infoFrame, smart_call, listing, raid_arrays>>

\* ---------------------------------------- RaidManager.get_raid_arrays

\* str.split(): the words between runs of whitespace
RECURSIVE Split(_)
Split(s) ==
    LET t == LStrip(s)
    IN  IF t = <<>> THEN <<>>
        ELSE LET n == IF \E i \in 1..Len(t) : t[i] \in Whitespace
                      THEN CHOOSE i \in 1..Len(t) :
                               t[i] \in Whitespace /\ \A j \in 1..(i - 1) : t[j] \notin Whitespace
                      ELSE Len(t) + 1
             IN  <<SubSeq(t, 1, n - 1)>> \o Split(SubSeq(t, n, Len(t)))

WordMd == <<"m","d">>
WordActive == <<"a","c","t","i","v","e">>
WordInactive == <<"i","n","a","c","t","i","v","e">>

\* lines 422-430: the dict appended for a line, if one is
ParseMdstatLine(line) ==
    LET parts == Split(line)
    IN  IF StartsWith(line, WordMd) /\ Len(parts) >= 4
        THEN << [name |-> DevPrefix \o parts[1],
                 level |-> parts[4],
                 status |-> IF Contains(line, WordActive) THEN WordActive ELSE WordInactive,
                 devices |-> SubSeq(parts, 5, Len(parts))] >>
        ELSE <<>>

\* the loop of lines 421-430 over the lines of /proc/mdstat
RECURSIVE ParseMdstat(_)
ParseMdstat(lines) ==
    IF lines = <<>> THEN <<>>
    ELSE ParseMdstat(SubSeq(lines, 1, Len(lines) - 1)) \o ParseMdstatLine(lines[Len(lines)])

\* lines of /proc/mdstat
LinePersonalities == <<"P","e","r","s","o","n","a","l","i","t","i","e","s"," ",":"," ","[","r","a","i","d","1","]">>
LineActive == <<"m","d","0"," ",":"," ","a","c","t","i","v","e"," ","r","a","i","d","1"," ","s","d","b","1","[","1","]"," ","s","d","a","1","[","0","]">>
LineInactive == <<"m","d","1"," ",":"," ","i","n","a","c","t","i","v","e"," ","s","d","c","1","[","0","]","(","S",")">>
LineReadOnly == <<"m","d","2"," ",":"," ","a","c","t","i","v","e"," ","(","a","u","t","o","-","r","e","a","d","-","o","n","l","y",")"," ","r","a","i","d","1"," ","s","d","d","1","[","0","]">>
LineBlocks == <<" "," "," "," "," "," ","1","0","4","6","5","2","8"," ","b","l","o","c","k","s"," ","[","2","/","2","]"," ","[","U","U","]">>

MdstatLines == {LinePersonalities, LineActive, LineInactive, LineReadOnly, LineBlocks}

\* the lines of /proc/mdstat a call is followed with
MaxLines == 3

MdstatTexts == UNION { [1..n -> MdstatLines] : n \in 0..MaxLines }

\* no call made yet
NoArrays == [pc |-> "idle", raised |-> FALSE, lines |-> <<>>, arrays |-> <<>>]

\* a caller calls RaidManager.get_raid_arrays(): cat raises (check=True) and
\* the except clause returns [], or the text is parsed
RaidArraysCall ==
    /\ raid_arrays.pc = "idle"
    /\ \/ raid_arrays' = [pc |-> "returned", raised |-> TRUE, lines |-> <<>>, arrays |-> <<>>]
       \/ \E lines \in MdstatTexts :
             raid_arrays' = [pc |-> "returned", raised |-> FALSE, lines |-> lines,
                             arrays |-> ParseMdstat(lines)]
    /\ UNCHANGED <<infoFrame, smart_call, listing, tech>>

\* the caller has used the list; the next call reads the file again
RaidArraysUsed ==
    /\ raid_arrays.pc = "returned"
    /\ raid_arrays' = NoArrays
    /\ UNCHANGED <<infoFrame, smart_call, listing, tech>>

\* ------------------------------------ DriveInfo.get_drives, filter_drives

\* the rows the lsblk query is followed with
MaxRows == 2

ListTrans == {TranSata, TranUsb, <<"U","S","B">>, None}

ListRows ==
    { LsblkRow(NameSda, tr, TRUE, ty, hp, rm) :
        tr \in ListTrans, ty \in {TypeDisk, TypeRaid1}, hp \in BOOLEAN, rm \in BOOLEAN }

RowLists == UNION { [1..n -> ListRows] : n \in 0..MaxRows }

\* what the lsblk query of get_drives can end with
QueryRuns ==
    { [status |-> "raised", rows |-> <<>>], [status |-> "garbled", rows |-> <<>>] }
       \cup { [status |-> "ok", rows |-> rows] : rows \in RowLists }

NoLists == [main |-> <<>>, usb |-> <<>>]

\* nothing listed yet
NoListing ==
    [pc |-> "idle", out |-> [status |-> "none", rows |-> <<>>], drives |-> <<>>,
     lists |-> NoLists]

\* the main window calls DriveInfo.get_drives
ListDrives ==
    /\ listing.pc = "idle"
    /\ \E out \in QueryRuns :
          LET run == get_drives_run(out)
          IN  listing' = [pc |-> IF run.raised THEN "raised" ELSE "listed", out |-> out,
                          drives |-> run.drives, lists |-> NoLists]
    /\ UNCHANGED <<infoFrame, smart_call, tech, raid_arrays>>

\* the main window calls DriveInfo.filter_drives on the list it got
FilterDrives ==
    /\ listing.pc = "listed"
    /\ listing' = [listing EXCEPT !.pc = "filtered", !.lists = filter_drives(listing.drives)]
    /\ UNCHANGED <<infoFrame, smart_call, tech, raid_arrays>>

\* the window has shown the lists; the next refresh lists the drives again
ListingShown ==
    /\ listing.pc = "filtered"
    /\ listing' = NoListing
    /\ UNCHANGED <<infoFrame, smart_call, tech, raid_arrays>>

\* a caller calls get_smart_info(device)
InfoCall ==
    /\ smart_call.pc \in {"idle", "returned", "raised"}
    /\ \E device \in InfoDevices :
          smart_call' = [NoCall EXCEPT !.pc = "probe", !.device = device]
    /\ UNCHANGED <<infoFrame, listing, tech, raid_arrays>>

\* check_smartctl_available, called before the try block: an exception other
\* than CalledProcessError leaves get_smart_info; in a nested frame it is
\* caught by the except clause around the recursive call
InfoProbe ==
    /\ smart_call.pc = "probe"
    /\ \E out \in ProbeOutcomes :
          LET c == [smart_call EXCEPT !.probes = @ + 1]
          IN  CASE out = "found" -> smart_call' = [c EXCEPT !.pc = "query"]
                [] out = "not_found" ->
                     smart_call' = [c EXCEPT !.pc = "returned",
                                             !.result = Unavailable("smartctl not found")]
                [] out = "raised" ->
                     IF c.depth = 0
                     THEN smart_call' = [c EXCEPT !.pc = "raised"]
                     ELSE smart_call' = [c EXCEPT !.pc = "returned",
                                                  !.result = Unavailable("Sudo failed")]
    /\ UNCHANGED <<infoFrame, listing, tech, raid_arrays>>

\* the query without sudo
InfoQuery ==
    /\ smart_call.pc = "query"
    /\ \E out \in QueryOutcomes :
          LET c == [smart_call EXCEPT !.queries = @ + 1]
          IN  CASE out \in {"ok", "ok_no_pass"} ->
                     smart_call' = [c EXCEPT !.pc = "returned",
                                             !.result = Available(IF out = "ok" THEN "True"
                                                                  ELSE "False")]
                [] out = "denied" -> smart_call' = [c EXCEPT !.pc = "sudo"]
                [] out = "failed" ->
                     smart_call' = [c EXCEPT !.pc = "returned",
                                             !.result = Unavailable("Command failed")]
                [] out = "raised" ->
                     smart_call' = [c EXCEPT !.pc = "returned",
                                             !.result = Unavailable("Error")]
    /\ UNCHANGED <<infoFrame, listing, tech, raid_arrays>>

\* the query with sudo; when it succeeds its output is dropped and
\* get_smart_info calls itself, which raises RecursionError at the limit
InfoSudo ==
    /\ smart_call.pc = "sudo"
    /\ \E out \in SudoOutcomes :
          LET c == [smart_call EXCEPT !.sudos = @ + 1]
          IN  CASE out = "ok" ->
                     IF c.depth < RecursionLimit
                     THEN smart_call' = [c EXCEPT !.pc = "probe", !.depth = @ + 1]
                     ELSE smart_call' = [c EXCEPT !.pc = "returned",
                                                  !.result = Unavailable("Sudo failed")]
                [] out = "failed" ->
                     smart_call' = [c EXCEPT !.pc = "returned",
                                             !.result = Unavailable("Command failed")]
                [] out = "raised" ->
                     smart_call' = [c EXCEPT !.pc = "returned",
                                             !.result = Unavailable("Sudo failed")]
    /\ UNCHANGED <<infoFrame, listing, tech, raid_arrays>>

\* ------------------------------------------------------------ main loop

\* the main loop runs the oldest callback queued by GLib.idle_add
IdleDispatch ==
    /\ wizard \in {"raid", "bcache"}
    /\ idle # <<>> /\ ui_wait = NoWait
    /\ CASE Head(idle).fn = "_show_raid_result" -> RaidShowResult(Head(idle).success)
         [] Head(idle).fn = "_show_bcache_result" -> BcacheShowResult(Head(idle).success)
    /\ idle' = Tail(idle)
    /\ UNCHANGED <<wizard, terminal, ui_wait, open, inventory, current_step, back_btn, next_btn, error,
                   last_cmd, worker, drive_list, drive_sel, wizardVars>>

\* the user answers the dialog of _show_error: d.close()
DismissError ==
    /\ open /\ error # NoError
    /\ error' = NoError
    /\ UNCHANGED <<wizard, terminal, ui_wait, open, inventory, current_step, back_btn, next_btn, finish_btn,
                   result_label, last_cmd, worker, idle, drive_list, drive_sel, wizardVars>>

\* the privileged command a terminal's shell runs for the UI thread ends,
\* with an exit status nothing reads: the shell goes on to "read -n 1"
TerminalCommandExit ==
    /\ ui_wait # NoWait /\ ui_wait.exit = NoExit
    /\ \E status \in ExitStatus : ui_wait' = [ui_wait EXCEPT !.exit = status]
    /\ UNCHANGED <<wizard, terminal, open, inventory, current_step, back_btn, next_btn,
                   finish_btn, error, result_label, last_cmd, worker, idle, drive_list,
                   drive_sel, wizardVars>>

\* a terminal emulator is installed or removed while the window is open
TerminalChange ==
    /\ open
    /\ terminal' = ~terminal
    /\ UNCHANGED <<wizard, open, inventory, current_step, back_btn, next_btn, finish_btn,
                   error, result_label, last_cmd, worker, idle, ui_wait, drive_list, drive_sel,
                   wizardVars>>

\* a device is plugged or unplugged while the wizard is open
Hotplug ==
    /\ open
    /\ \E inv \in Inventories \ {inventory} : inventory' = inv
    /\ UNCHANGED <<wizard, terminal, ui_wait, open, current_step, back_btn, next_btn, finish_btn, error,
                   result_label, last_cmd, worker, idle, drive_list, drive_sel, wizardVars>>

\* the fields of a wizard right after __init__ (_setup_ui, then _show_step(0))
Constructed ==
    /\ current_step = 0
    /\ back_btn = FALSE
    /\ next_btn = TRUE
    /\ finish_btn = FALSE
    /\ error = NoError
    /\ result_label = ""
    /\ last_cmd = <<>>
    /\ worker = "none"
    /\ idle = <<>>
    /\ ui_wait = NoWait
    /\ drive_list = <<>>
    /\ drive_sel = {}
    /\ level_sel = 0
    /\ selected_level = NoLevel
    /\ selected_drives = <<>>
    /\ drive1_wiped = FALSE
    /\ drive2_wiped = FALSE
    /\ wipe1_on = None
    /\ wipe2_on = None
    /\ array_name = None
    /\ mdstat_read = {}
    /\ mdadm_exit = NoExit
    /\ backing_list = <<>>
    /\ backing_sel = 0
    /\ cache_list = <<>>
    /\ cache_sel = 0
    /\ selected_backing = None
    /\ selected_cache = None
    /\ backing_needs_detach = FALSE
    /\ cache_needs_detach = FALSE
    /\ backing_detached = FALSE
    /\ cache_detached = FALSE
    /\ backing_detach_ran = FALSE
    /\ cache_detach_ran = FALSE
    /\ backing_wiped = FALSE
    /\ cache_wiped = FALSE
    /\ term_returned = FALSE
    /\ make_bcache_exit = NoExit
    /\ lsblk_read = None
    /\ selected_drive = None
    /\ needs_format = FALSE
    /\ format_done = FALSE
    /\ format_on = None
    /\ mp_entry = <<>>
    /\ mount_point = None
    /\ fs_combo = FsAuto
    /\ fs_type = None
    /\ mount_options = None
    /\ volume_label = None
    /\ summary_line = None
    /\ fstype_query = None
    /\ uuid_query = None
    /\ type_sel = 0
    /\ test_type = NoType
    /\ test_options = None
    /\ result = <<>>
    /\ results_file = <<>>
    /\ testfile = FALSE
    /\ test_sel = 0
    /\ selected_test = NoTest
    /\ test_success = FALSE
    /\ smart_read = NoInfo
    /\ content = (IF wizard = "detail" THEN "loading" ELSE "none")   \* load_details()
    /\ loaders = (IF wizard = "detail" THEN 1 ELSE 0)
    /\ toasts = 0
    /\ saving = [w \in Writers |-> NotSaving]
    /\ clock = 0
    /\ saved = <<>>
    /\ interleaved = FALSE
    /\ smart_call = NoCall
    /\ listing = NoListing
    /\ tech = NoTech
    /\ raid_arrays = NoArrays

Init ==
    /\ wizard \in Windows
    /\ terminal \in TermFound
    /\ open = TRUE
    /\ inventory \in Inventories
    /\ Constructed

\* cancel_btn / finish_btn: self.close().  The instance is discarded: its
\* fields are no longer observed and are left as constructed.
Close ==
    /\ open /\ ui_wait = NoWait
    /\ open' = FALSE
    /\ current_step' = 0
    /\ back_btn' = FALSE
    /\ next_btn' = TRUE
    /\ finish_btn' = FALSE
    /\ error' = NoError
    /\ result_label' = ""
    /\ last_cmd' = <<>>
    /\ worker' = "none"
    /\ idle' = <<>>
    /\ drive_list' = <<>>
    /\ drive_sel' = {}
    /\ level_sel' = 0
    /\ selected_level' = NoLevel
    /\ selected_drives' = <<>>
    /\ drive1_wiped' = FALSE
    /\ drive2_wiped' = FALSE
    /\ wipe1_on' = None
    /\ wipe2_on' = None
    /\ array_name' = None
    /\ mdstat_read' = {}
    /\ mdadm_exit' = NoExit
    /\ backing_list' = <<>>
    /\ backing_sel' = 0
    /\ cache_list' = <<>>
    /\ cache_sel' = 0
    /\ selected_backing' = None
    /\ selected_cache' = None
    /\ backing_needs_detach' = FALSE
    /\ cache_needs_detach' = FALSE
    /\ backing_detached' = FALSE
    /\ cache_detached' = FALSE
    /\ backing_detach_ran' = FALSE
    /\ cache_detach_ran' = FALSE
    /\ backing_wiped' = FALSE
    /\ cache_wiped' = FALSE
    /\ term_returned' = FALSE
    /\ make_bcache_exit' = NoExit
    /\ lsblk_read' = None
    /\ selected_drive' = None
    /\ needs_format' = FALSE
    /\ format_done' = FALSE
    /\ format_on' = None
    /\ mp_entry' = <<>>
    /\ mount_point' = None
    /\ fs_combo' = FsAuto
    /\ fs_type' = None
    /\ mount_options' = None
    /\ volume_label' = None
    /\ summary_line' = None
    /\ fstype_query' = None
    /\ uuid_query' = None
    /\ type_sel' = 0
    /\ test_type' = NoType
    /\ test_options' = None
    /\ result' = <<>>
    /\ UNCHANGED <<results_file, testfile>>
    /\ test_sel' = 0
    /\ selected_test' = NoTest
    /\ test_success' = FALSE
    /\ smart_read' = NoInfo
    /\ content' = "none"
    /\ loaders' = 0
    /\ toasts' = 0
    /\ UNCHANGED <<saveVars, infoVars>>
    /\ UNCHANGED <<wizard, terminal, inventory, ui_wait>>

Next ==
    \/ RaidOnNext
    \/ RaidOnBack
    \/ RaidOnWipeDrive1
    \/ RaidOnWipeDrive2
    \/ RaidWipefsReturn
    \/ RaidSelectLevel
    \/ RaidToggleDrive
    \/ RaidWorkerLaunch
    \/ RaidWorkerExit
    \/ BcacheOnNext
    \/ BcacheOnBack
    \/ BcacheOnSkipCache
    \/ BcacheOnWipeBacking
    \/ BcacheOnWipeCache
    \/ BcacheWipefsReturn
    \/ BcacheOnDetachBacking
    \/ BcacheOnDetachCache
    \/ BcacheDetachReturn
    \/ BcacheSelectBacking
    \/ BcacheSelectCache
    \/ BcacheWorkerLaunch
    \/ BcacheWorkerExit
    \/ BcacheWorkerRequery
    \/ FstabOnNext
    \/ FstabCommitReturn
    \/ FstabOnBack
    \/ FstabOnFormatBcache
    \/ FstabFormatReturn
    \/ FstabEditMountPoint
    \/ FstabSelectDrive
    \/ BenchOnNext
    \/ BenchRunReturn
    \/ BenchOnBack
    \/ BenchSelectDrive
    \/ BenchSelectType
    \/ SmartOnNext
    \/ SmartOnBack
    \/ SmartSelectDrive
    \/ SmartSelectTest
    \/ SmartTestLaunch
    \/ SmartTestExit
    \/ SmartWorkerQuery
    \/ SmartShowResult
    \/ SmartShowTerminal
    \/ SmartShowReturn
    \/ DetailRunTestAndRefresh
    \/ DetailTestRefresh
    \/ DetailLoadDataThread
    \/ DetailIdleDispatch
    \/ DetailToastTimeout
    \/ IdleDispatch
    \/ DismissError
    \/ Hotplug
    \/ TerminalChange
    \/ TerminalCommandExit
    \/ Close

Spec == Init /\ [][Next]_vars

\* the raid wizard alone
InitRaid == wizard = "raid" /\ terminal \in TermFound /\ open = TRUE /\ inventory \in Inventories /\ Constructed

NextRaid ==
    \/ RaidOnNext
    \/ RaidOnBack
    \/ RaidOnWipeDrive1
    \/ RaidOnWipeDrive2
    \/ RaidWipefsReturn
    \/ RaidSelectLevel
    \/ RaidToggleDrive
    \/ RaidWorkerLaunch
    \/ RaidWorkerExit
    \/ IdleDispatch
    \/ DismissError
    \/ Hotplug
    \/ TerminalChange
    \/ TerminalCommandExit
    \/ Close

SpecRaid == InitRaid /\ [][NextRaid]_vars

\* the bcache wizard alone
InitBcache == wizard = "bcache" /\ terminal \in TermFound /\ open = TRUE /\ inventory \in Inventories /\ Constructed

NextBcache ==
    \/ BcacheOnNext
    \/ BcacheOnBack
    \/ BcacheOnSkipCache
    \/ BcacheOnWipeBacking
    \/ BcacheOnWipeCache
    \/ BcacheWipefsReturn
    \/ BcacheOnDetachBacking
    \/ BcacheOnDetachCache
    \/ BcacheDetachReturn
    \/ BcacheSelectBacking
    \/ BcacheSelectCache
    \/ BcacheWorkerLaunch
    \/ BcacheWorkerExit
    \/ BcacheWorkerRequery
    \/ IdleDispatch
    \/ DismissError
    \/ Hotplug
    \/ TerminalChange
    \/ TerminalCommandExit
    \/ Close

SpecBcache == InitBcache /\ [][NextBcache]_vars

\* the bcache wizard on a machine whose devices do not change
NextBcacheStatic ==
    \/ BcacheOnNext
    \/ BcacheOnBack
    \/ BcacheOnSkipCache
    \/ BcacheOnWipeBacking
    \/ BcacheOnWipeCache
    \/ BcacheWipefsReturn
    \/ BcacheOnDetachBacking
    \/ BcacheOnDetachCache
    \/ BcacheDetachReturn
    \/ BcacheSelectBacking
    \/ BcacheSelectCache
    \/ BcacheWorkerLaunch
    \/ BcacheWorkerExit
    \/ BcacheWorkerRequery
    \/ IdleDispatch
    \/ DismissError
    \/ TerminalChange
    \/ TerminalCommandExit
    \/ Close

SpecBcacheStatic == InitBcache /\ [][NextBcacheStatic]_vars

\* the two wizards with a creation worker, their threads being scheduled:
\* a worker thread that can take its next statement takes it, a terminal
\* that was spawned exits, and the main loop runs the callbacks queued with
\* GLib.idle_add
InitCreation == InitRaid \/ InitBcache

NextCreation == NextRaid \/ NextBcache

FairCreation ==
    /\ WF_vars(RaidWorkerLaunch) /\ WF_vars(RaidWorkerExit)
    /\ WF_vars(BcacheWorkerLaunch) /\ WF_vars(BcacheWorkerExit)
    /\ WF_vars(BcacheWorkerRequery)
    /\ WF_vars(IdleDispatch)

SpecCreation == InitCreation /\ [][NextCreation]_vars /\ FairCreation

\* the fstab wizard alone
InitFstab == wizard = "fstab" /\ terminal \in TermFound /\ open = TRUE /\ inventory \in Inventories /\ Constructed

NextFstab ==
    \/ FstabOnNext
    \/ FstabCommitReturn
    \/ FstabOnBack
    \/ FstabOnFormatBcache
    \/ FstabFormatReturn
    \/ FstabEditMountPoint
    \/ FstabSelectDrive
    \/ DismissError
    \/ Hotplug
    \/ TerminalChange
    \/ TerminalCommandExit
    \/ Close

SpecFstab == InitFstab /\ [][NextFstab]_vars

\* the benchmark wizard alone
InitBench == wizard = "benchmark" /\ terminal \in TermFound /\ open = TRUE /\ inventory \in Inventories /\ Constructed

NextBench ==
    \/ BenchOnNext
    \/ BenchRunReturn
    \/ BenchOnBack
    \/ BenchSelectDrive
    \/ BenchSelectType
    \/ DismissError
    \/ Hotplug
    \/ TerminalChange
    \/ TerminalCommandExit
    \/ Close

SpecBench == InitBench /\ [][NextBench]_vars

\* the SMART wizard alone
InitSmart == wizard = "smart" /\ terminal \in TermFound /\ open = TRUE /\ inventory \in Inventories /\ Constructed

NextSmart ==
    \/ SmartOnNext
    \/ SmartOnBack
    \/ SmartSelectDrive
    \/ SmartSelectTest
    \/ SmartTestLaunch
    \/ SmartTestExit
    \/ SmartWorkerQuery
    \/ SmartShowResult
    \/ SmartShowTerminal
    \/ SmartShowReturn
    \/ DismissError
    \/ Hotplug
    \/ TerminalChange
    \/ TerminalCommandExit
    \/ Close

SpecSmart == InitSmart /\ [][NextSmart]_vars

\* the drive detail window alone; it shows no error dialog
InitDetail == wizard = "detail" /\ terminal \in TermFound /\ open = TRUE /\ inventory \in Inventories /\ Constructed

NextDetail ==
    \/ DetailRunTestAndRefresh
    \/ SmartTestLaunch
    \/ SmartTestExit
    \/ DetailTestRefresh
    \/ DetailLoadDataThread
    \/ DetailIdleDispatch
    \/ DetailToastTimeout
    \/ Hotplug
    \/ TerminalChange
    \/ Close

SpecDetail == InitDetail /\ [][NextDetail]_vars

\* the processes that save benchmark results, no window being followed
InitSave == wizard = "benchmark" /\ terminal = TRUE /\ open = FALSE /\ inventory = InventoryDisks /\ Constructed

NextSave ==
    \/ \E w \in Writers : SaveLoad(w)
    \/ \E w \in Writers : SaveDump(w)

SpecSave == InitSave /\ [][NextSave]_vars

\* the calls of get_smart_info, no window being followed
InitSmartInfo == InitSave

NextSmartInfo == InfoCall \/ InfoProbe \/ InfoQuery \/ InfoSudo

SpecSmartInfo == InitSmartInfo /\ [][NextSmartInfo]_vars

\* the drive listing of the main window, no wizard being followed
InitDrives == InitSave

NextDrives == ListDrives \/ FilterDrives \/ ListingShown

SpecDrives == InitDrives /\ [][NextDrives]_vars

\* the technical details of the drive detail window
InitTech == InitSave

NextTech == TechCall \/ TechShown

SpecTech == InitTech /\ [][NextTech]_vars

\* the reading of /proc/mdstat
InitArrays == InitSave

NextArrays == RaidArraysCall \/ RaidArraysUsed

SpecArrays == InitArrays /\ [][NextArrays]_vars

\* ------------------------------------------------------------ properties

\* a click on Next, a click on Back, in whichever wizard is open
OnNext == RaidOnNext \/ BcacheOnNext \/ FstabOnNext \/ BenchOnNext
OnBack == RaidOnBack \/ BcacheOnBack \/ FstabOnBack \/ BenchOnBack

\* the wizard shows its Result step
AtResult ==
    \/ wizard = "raid" /\ current_step = RaidResult
    \/ wizard = "bcache" /\ current_step = BcacheResult
    \/ wizard = "fstab" /\ current_step = FstabResult
    \/ wizard = "benchmark" /\ current_step = BenchResult

\* the forward gate of the current step is false
RaidGateFalse ==
    /\ wizard = "raid"
    /\ \/ current_step = RaidLevel /\ level_sel = 0
       \/ current_step = RaidDrives /\ Cardinality(drive_sel) # 2
       \/ current_step = RaidCleanse /\ ~(drive1_wiped /\ drive2_wiped)

BcacheGateFalse ==
    /\ wizard = "bcache"
    /\ \/ current_step = BcacheBacking /\ backing_sel = 0
       \/ current_step = BcacheDetach /\ backing_needs_detach /\ ~backing_detached
       \/ current_step = BcacheDetach /\ cache_needs_detach /\ ~cache_detached
       \/ current_step = BcacheCleanse /\ ~backing_wiped
       \/ current_step = BcacheCleanse /\ selected_cache # None /\ ~cache_wiped

FstabGateFalse ==
    /\ wizard = "fstab"
    /\ \/ current_step = FstabDevice /\ drive_sel = {}
       \/ current_step = FstabFormat /\ ~format_done
       \/ current_step = FstabMountPoint /\ Strip(mp_entry) = <<>>
       \/ current_step = FstabMountPoint /\ Strip(mp_entry) # <<>>
             /\ Head(Strip(mp_entry)) # "/"

BenchGateFalse ==
    /\ wizard = "benchmark"
    /\ \/ current_step = BenchDevice /\ drive_sel = {}
       \/ current_step = BenchType /\ type_sel = 0

GateFalse == RaidGateFalse \/ BcacheGateFalse \/ FstabGateFalse \/ BenchGateFalse

\* C1: in every wizard a click on Next while the forward gate of the current
\* step is false leaves current_step as it is
C1_GatedNextKeepsStep ==
    [][ (GateFalse /\ OnNext) => current_step' = current_step ]_vars

\* C1 happens: Next was clicked at the Mount-point step on a text that does
\* not start with "/", and the wizard is still at that step
C1_Witness ==
    /\ wizard = "fstab" /\ current_step = FstabMountPoint
    /\ mp_entry = <<"m">>
    /\ error = "Please enter a valid mount point (must start with /)."

\* C2: at the Result step Back and Next are insensitive, no click on Back or
\* Next changes current_step, and the wizard stays there, with both
\* insensitive, for as long as its window exists
C2_ResultIsTerminal ==
    /\ [](AtResult => /\ ~back_btn /\ ~next_btn
                      /\ ~ENABLED ((OnNext \/ OnBack) /\ current_step' # current_step))
    /\ [][ (AtResult /\ open') => (AtResult' /\ ~back_btn' /\ ~next_btn') ]_vars

\* C2 happens: the benchmark wizard is at its Result step with a result saved
C2_Witness ==
    /\ wizard = "benchmark" /\ current_step = BenchResult /\ open
    /\ Len(results_file) = 1

\* the step before the current one in the wizard's sequence; the Mount-point
\* step of the fstab wizard follows the Device step or the Format step
PrecedingSteps ==
    IF wizard # "fstab" THEN {current_step - 1}
    ELSE CASE current_step = FstabFormat     -> {FstabDevice}
           [] current_step = FstabMountPoint -> {FstabDevice, FstabFormat}
           [] OTHER                          -> {current_step - 1}

\* the list of the step just entered was built again from the inventory
Repopulated ==
    /\ (wizard \in {"fstab", "benchmark"} /\ current_step' = FstabDevice)
          => (drive_list' = PopulateDriveList(inventory) /\ drive_sel' = {})
    /\ (wizard = "raid" /\ current_step' = RaidDrives)
          => (drive_list' = PopulateDriveList(inventory) /\ drive_sel' = {})
    /\ (wizard = "bcache" /\ current_step' = BcacheBacking)
          => backing_list' = PopulateBackingList(inventory)
    /\ (wizard = "bcache" /\ current_step' = BcacheCache)
          => cache_list' = PopulateCacheList(inventory)

\* C3: at every step where Back is sensitive, a click on Back moves
\* current_step to the preceding step of the wizard and builds that step's
\* list again.  No click on Back may do anything else.
C3_BackMovesToPrecedingStep ==
    (Interactive /\ back_btn)
       => ~ENABLED (OnBack /\ ~(current_step' \in PrecedingSteps /\ Repopulated))

\* C4: at the Review and Result steps of the RAID wizard two drives are
\* selected, both wipe flags are true, and each flag was set by a wipe of the
\* drive now selected in its position
C4_ReviewedDrivesWereWiped ==
    (wizard = "raid" /\ current_step \in {RaidReview, RaidResult})
       => /\ Len(selected_drives) = 2
          /\ selected_drives[1] # selected_drives[2]
          /\ drive1_wiped /\ drive2_wiped
          /\ wipe1_on = selected_drives[1]
          /\ wipe2_on = selected_drives[2]

\* C4 happens: the RAID wizard is at Review after wipes of md0 and sdc
C4_Witness ==
    /\ wizard = "raid" /\ current_step = RaidReview
    /\ wipe1_on = DevPrefix \o NameMd0 /\ wipe2_on = DevPrefix \o NameSdc

\* C5: at the Review and Result steps of the Bcache wizard the backing device
\* was wiped, and so was the cache device when one is selected; with no cache
\* device selected, Next leaves the Cleanse step once the backing device is wiped
C5_ReviewedDevicesWereWiped ==
    /\ []((wizard = "bcache" /\ current_step \in {BcacheReview, BcacheResult})
            => (backing_wiped /\ (selected_cache # None => cache_wiped)))
    /\ [][ (/\ BcacheOnNext /\ current_step = BcacheCleanse
            /\ selected_cache = None /\ backing_wiped)
           => current_step' = BcacheReview ]_vars

\* C5 happens: Review was reached with no cache device and no cache wipe
C5_Witness ==
    /\ wizard = "bcache" /\ current_step = BcacheReview
    /\ selected_cache = None /\ backing_wiped /\ ~cache_wiped

\* C6: at the Detach step Next goes to Cleanse exactly when, for the backing
\* role and for the cache role, the device was no member of a bcache set when
\* the step was entered or a detach of that role has ended since
C6_DetachGatePerRole ==
    [][ (BcacheOnNext /\ current_step = BcacheDetach)
        => ((current_step' = BcacheCleanse)
              <=> (/\ (~backing_needs_detach \/ backing_detach_ran)
                   /\ (~cache_needs_detach \/ cache_detach_ran))) ]_vars

\* C6 happens: Cleanse was reached after a detach of the backing role, the
\* cache device needing none
C6_Witness ==
    /\ wizard = "bcache" /\ current_step = BcacheCleanse
    /\ backing_needs_detach /\ backing_detach_ran
    /\ selected_cache # None /\ ~cache_needs_detach /\ ~cache_detach_ran

\* C7: in the fstab wizard, needs_format at the Mount-point step or a later
\* one means format_done, set by a format of the device now selected
C7_FormatBeforeMountPoint ==
    (/\ wizard = "fstab" /\ needs_format
     /\ current_step \in {FstabMountPoint, FstabFsType, FstabOptions, FstabLabel,
                          FstabReview, FstabResult})
       => (format_done /\ format_on = selected_drive)

\* C7 happens: a device that needed a format is under review
C7_Witness ==
    wizard = "fstab" /\ needs_format /\ current_step = FstabReview /\ format_done

\* C8: Next at the Device step goes to the Format step exactly when the
\* selected device is a /dev/bcache device whose file system type query gives
\* nothing; for every other device it goes to the Mount-point step with
\* needs_format false
C8_FormatStepOnlyForBlankBcache ==
    [][ (FstabOnNext /\ current_step = FstabDevice /\ drive_sel # {})
        => LET dev == SelectedRowDevice
               blank == /\ Len(dev) >= 11
                        /\ SubSeq(dev, 1, 11)
                              = <<"/","d","e","v","/","b","c","a","c","h","e">>
                        /\ fstype_query' \in {QueryFailed, <<>>, <<"\n">>}
           IN  /\ (current_step' = FstabFormat) <=> blank
               /\ ~blank => (current_step' = FstabMountPoint /\ ~needs_format') ]_vars

\* C8 happens: /dev/bcache0 answered with an empty type and the wizard is at
\* the Format step
C8_Witness ==
    /\ wizard = "fstab" /\ current_step = FstabFormat
    /\ selected_drive = DevPrefix \o NameBcache0 /\ fstype_query = <<"\n">>

\* a mkfs with a label
IsLabelledMkfs(cmd) == cmd.prog = "mkfs" /\ "label" \in DOMAIN cmd

\* C9: confirming the Review step issues a mkfs with the label only when the
\* device needed a format and the file system takes a label
C9_LabelledFormatOnlyWhenRequired ==
    (wizard = "fstab" /\ current_step = FstabResult)
       => \A i \in DOMAIN last_cmd :
             IsLabelledMkfs(last_cmd[i])
                => (needs_format /\ fs_type \in {FsExt4, FsXfs, FsBtrfs})

\* the text before the first tab
RECURSIVE SourceField(_)
SourceField(line) ==
    IF line = <<>> \/ Head(line) = "\t" THEN <<>>
    ELSE <<Head(line)>> \o SourceField(Tail(line))

\* the line of the tee -a /etc/fstab among the commands
AppendedLine ==
    last_cmd[CHOOSE i \in DOMAIN last_cmd : last_cmd[i].prog = "tee_fstab"].line

\* C10: the appended line names the device by UUID=<value> exactly when the
\* UUID query gave a value, and by its path when it gave none or failed
C10_SourceFieldFollowsUuidQuery ==
    (wizard = "fstab" /\ current_step = FstabResult)
       => LET uuid == IF uuid_query = QueryFailed THEN <<>> ELSE Strip(uuid_query)
              src == SourceField(AppendedLine)
          IN  /\ uuid # <<>> => src = <<"U","U","I","D","=">> \o uuid
              /\ uuid = <<>> => src = selected_drive
              /\ StartsWith(src, <<"U","U","I","D","=">>) <=> uuid # <<>>

\* C10 happens: blkid failed and a line was appended
C10_Witness ==
    /\ wizard = "fstab" /\ current_step = FstabResult
    /\ uuid_query = QueryFailed /\ result_label = "success"

\* md0 .. md10 as they are written
MdNames ==
    << <<"m","d","0">>, <<"m","d","1">>, <<"m","d","2">>, <<"m","d","3">>, <<"m","d","4">>,
       <<"m","d","5">>, <<"m","d","6">>, <<"m","d","7">>, <<"m","d","8">>, <<"m","d","9">>,
       <<"m","d","1","0">> >>

\* C11: the array name the creation worker picked is md<i> for the smallest i
\* of 0..9 that /proc/mdstat did not list when the worker read it, and md10
\* exactly when md0..md9 were all listed; the mdadm command it issues creates
\* /dev/<that name> with the selected level and two raid devices.
C11_ArrayNameIsFirstUnused ==
    (wizard = "raid" /\ array_name # None) =>
       /\ \E i \in 1..11 :
             /\ array_name = MdNames[i]
             /\ \A j \in 1..(i - 1) : MdNames[j] \in mdstat_read
             /\ i <= 10 => MdNames[i] \notin mdstat_read
       /\ array_name = MdNames[11] <=> \A j \in 1..10 : MdNames[j] \in mdstat_read
       /\ worker = "running" =>
             /\ Len(last_cmd) = 1
             /\ last_cmd[1].prog = "mdadm"
             /\ last_cmd[1].array = <<"/","d","e","v","/">> \o array_name
             /\ last_cmd[1].level = selected_level
             /\ selected_level \in {0, 1}
             /\ last_cmd[1].raid_devices = 2

\* C11 happens: md0 is free, md1..md9 are listed, and mdadm runs for md0
C11_Witness ==
    /\ wizard = "raid" /\ worker = "running"
    /\ array_name = <<"m","d","0">>
    /\ <<"m","d","1">> \in mdstat_read /\ <<"m","d","9">> \in mdstat_read

\* C12: once the RAID wizard's Result step reports an outcome, it reports
\* success exactly when the mdadm creation command exited 0; a creation
\* command that exited non-zero is reported as failure.
C12_ResultFollowsCreationExit ==
    (wizard = "raid" /\ current_step = RaidResult /\ result_label \in {"success", "failure"})
       => (result_label = "success" <=> mdadm_exit = 0)

\* C13: once the Bcache wizard's Result step reports an outcome, it reports
\* success exactly when the terminal of the creation command was launched and
\* returned without error and the device list queried after that held a
\* bcache device; an empty list after creation is reported as failure.
C13_SuccessNeedsTerminalAndDevice ==
    (wizard = "bcache" /\ current_step = BcacheResult
        /\ result_label \in {"success", "failure"})
       => (result_label = "success"
             <=> /\ term_returned
                 /\ lsblk_read # None
                 /\ \E i \in DOMAIN lsblk_read :
                       Contains(lsblk_read[i], <<"b","c","a","c","h","e">>))

\* C13 happens: the terminal returned, the re-query found no bcache device,
\* and the Result step reports failure
C13_Witness ==
    /\ wizard = "bcache" /\ current_step = BcacheResult
    /\ term_returned /\ lsblk_read = << <<"s","d","a">>, <<"s","d","b">> >>
    /\ result_label = "failure"

\* C14: the make-bcache command names the backing device with -B and carries
\* -C <cache> exactly when a cache device is selected when it is built; the
\* Skip control leaves no cache selected, whatever was selected before, and
\* from then on none is selected until Next leaves the Cache step with a row
\* selected, so a creation after Skip carries only -B.
C14_CacheArgumentFollowsSelection ==
    /\ []((wizard = "bcache" /\ last_cmd # <<>> /\ last_cmd[1].prog = "make-bcache")
            => /\ Len(last_cmd) = 1
               /\ last_cmd[1].B = selected_backing
               /\ IF selected_cache # None /\ selected_cache # <<>>
                  THEN /\ DOMAIN last_cmd[1] = {"prog", "B", "C"}
                       /\ last_cmd[1].C = selected_cache
                  ELSE DOMAIN last_cmd[1] = {"prog", "B"})
    /\ [][ BcacheOnSkipCache => selected_cache' = None ]_vars
    /\ [][ (selected_cache = None /\ selected_cache' # None)
             => (BcacheOnNext /\ current_step = BcacheCache /\ cache_sel # 0) ]_vars

\* C14 happens: a cache row was selected when Skip was used, and the command
\* that runs carries only the backing device
C14_Witness ==
    /\ wizard = "bcache" /\ worker = "running"
    /\ cache_sel # 0 /\ selected_cache = None
    /\ last_cmd = << [prog |-> "make-bcache", B |-> selected_backing] >>

\* the terminal processes this instance launched that have not exited: the
\* one the UI thread waits for and the one the creation worker waits for
RunningTerminals ==
    (IF ui_wait # NoWait THEN 1 ELSE 0) + (IF worker = "running" THEN 1 ELSE 0)

\* the five wizard classes; DriveDetailWindow is a window, not a wizard
IsWizard == wizard \in Wizards \cup {"smart"}

\* C15: whatever the user clicks, at most one terminal process launched by
\* the wizard instance is running at any time: the UI thread never waits for
\* a terminal while the worker's terminal runs, and a worker is started
\* only when the instance has started none before.
C15_OneTerminalAtATime ==
    /\ [](IsWizard => RunningTerminals <= 1)
    /\ [][ (IsWizard /\ worker' = "started" /\ worker # "started") => worker = "none" ]_vars
    /\ [][ (ui_wait' # NoWait /\ [ui_wait' EXCEPT !.exit = NoExit] # [ui_wait EXCEPT !.exit = NoExit])
              => (ui_wait = NoWait /\ worker \in {"none", "done"}) ]_vars

\* C15 happens: the creation terminal runs while the window takes clicks
C15_Witness ==
    /\ worker = "running" /\ Interactive /\ RunningTerminals = 1
    /\ wizard = "bcache" /\ current_step = BcacheResult

\* C16: every terminal of a privileged command is waited for by a background
\* worker thread; the UI thread is never inside the subprocess.run of a
\* spawned terminal.
C16_UiThreadNeverWaits == ui_wait = NoWait

\* the steps taken by a thread other than the GTK main thread
WorkerThreadStep ==
    \/ RaidWorkerLaunch
    \/ RaidWorkerExit
    \/ BcacheWorkerLaunch
    \/ BcacheWorkerExit
    \/ BcacheWorkerRequery
    \/ SmartTestLaunch
    \/ SmartTestExit
    \/ SmartWorkerQuery
    \/ DetailTestRefresh
    \/ DetailLoadDataThread

\* what the windows show: pages, buttons, dialogs, labels, lists, toasts
uiState ==
    <<current_step, back_btn, next_btn, finish_btn, error, result_label, drive_list,
      drive_sel, backing_list, cache_list, content, toasts>>

\* C17: no step of a worker thread changes what a window shows; a worker
\* only queues callbacks for the main loop.
C17_WorkersLeaveUiAlone == [][WorkerThreadStep => UNCHANGED uiState]_vars

\* C18: a wizard's worker queries the state again (the bcache devices after
\* make-bcache, the SMART information after a self-test) only once the
\* terminal it launched has returned: the query is made by a worker that
\* left subprocess.run, while no terminal of the instance is running.
C18_RequeryAfterExit ==
    /\ [][ (IsWizard /\ lsblk_read' # lsblk_read /\ lsblk_read' # None)
              => (term_returned /\ worker = "sleeping" /\ RunningTerminals = 0) ]_vars
    /\ [][ (IsWizard /\ smart_read' # smart_read /\ smart_read' # NoInfo)
              => (worker = "sleeping" /\ RunningTerminals = 0) ]_vars
    /\ []((IsWizard /\ (lsblk_read # None \/ smart_read # NoInfo)) => worker # "running")

\* C18 happens: make-bcache's terminal returned and the list was read after
C18_Witness ==
    /\ wizard = "bcache" /\ term_returned /\ lsblk_read # None
    /\ last_cmd # <<>> /\ last_cmd[1].prog = "make-bcache"

\* the record of process w's latest save_result call
LastRecord(w) == saving[w].results[Len(saving[w].results)]

\* the latest calls of the two processes have returned, and each had read
\* the file before the other wrote it
BothReadBeforeEitherWrote ==
    \A w \in Writers : saving[w].pc = "idle" /\ saving[w].raced

\* C19: save_result reads the whole history, appends in memory and rewrites
\* the whole file from memory; when the calls of two processes interleave so
\* that both read before either writes, the stored history holds the record
\* of one of the two calls and misses the other.
C19_InterleavedSavesLoseOne ==
    /\ [][ \A w \in Writers : SaveDump(w) => results_file' = saving[w].results ]_vars
    /\ [](BothReadBeforeEitherWrote =>
             /\ \E w \in Writers : LastRecord(w) \notin Range(results_file)
             /\ \E w \in Writers : LastRecord(w) \in Range(results_file))

\* C19 happens: two calls returned, one record is stored
C19_Witness ==
    /\ BothReadBeforeEitherWrote
    /\ Len(saved) = 2 /\ Len(results_file) = 1

\* C20: while the save_result calls run one at a time, the history read back
\* for a device is the saved records of that device in the order of saving,
\* whatever was saved for other devices, and a save leaves the records
\* stored before it as they were and where they were.
C20_HistoryPerDeviceInSaveOrder ==
    /\ []((~interleaved /\ \A w \in Writers : saving[w].pc = "idle") =>
             \A d \in BenchDevices :
                get_results_for_device(results_file, d)
                   = SelectSeq(saved, LAMBDA r : r.device = d))
    /\ [][ ~interleaved' =>
             /\ Len(results_file') >= Len(results_file)
             /\ SubSeq(results_file', 1, Len(results_file)) = results_file ]_vars

\* C20 happens: three saves one after the other, for both devices
C20_Witness ==
    /\ ~interleaved /\ Len(saved) = 3 /\ results_file = saved
    /\ saved[1].device # saved[2].device /\ saved[3].device = saved[1].device

\* the number in front of the last character of a size text
SizeNumber(size) == DecimalValue(SubSeq(size, 1, Len(size) - 1))

\* C21: the block count derived from the size text the wizard holds is the
\* number times 1024 for a text ending in g or G, the number itself for a
\* text ending in m or M, and the fallback 1024 for every other text, and
\* deriving it raises no error.
C21_BlockCountFromSize ==
    (wizard = "benchmark" /\ test_options # None) =>
        LET size == test_options
            count == BlockCount(size)
        IN  /\ count # ValueError
            /\ EndsWith(Lower(size), <<"g">>) => count = SizeNumber(size) * 1024
            /\ EndsWith(Lower(size), <<"m">>) => count = SizeNumber(size)
            /\ (~EndsWith(Lower(size), <<"g">>) /\ ~EndsWith(Lower(size), <<"m">>))
                  => count = 1024

\* a benchmark run attempt that began with no test file on the mount point
\* ends: Next at Review returns without a terminal, or the terminal is over
FreshAttemptEnds ==
    \/ BenchOnNext /\ current_step = BenchReview /\ ~testfile /\ ui_wait' = NoWait
    \/ BenchRunReturn /\ ~ui_wait.flag

\* C22: when a benchmark run attempt ends, whatever its path, the test file
\* darkdiskz_benchmark.tmp it created is no longer on the mount point.
C22_TestFileGoneAfterAttempt == [][FreshAttemptEnds => ~testfile']_vars

\* Next is clicked at the Review step with Random Read or Random Write chosen
RandomTestConfirmed ==
    BenchOnNext /\ current_step = BenchReview /\ test_type \in {2, 3}

benchRunEffects == <<current_step, last_cmd, ui_wait, results_file, result, testfile>>

\* C23 as stated: confirming Review with a random test type shows the
\* unsupported-test error, launches nothing, appends no record and stays at
\* Review.
C23_RandomTestRejectedUnsupported ==
    [][RandomTestConfirmed => (error' = MsgUnsupported /\ UNCHANGED benchRunEffects)]_vars

\* C23 amended: confirming Review with a random test type launches nothing,
\* appends no record and stays at Review; the error shown is the
\* unsupported-test error unless the mount point check, which comes first,
\* fails (then its error is shown) or the size text makes the count
\* computation raise (then no dialog is shown).
C23_RandomTestRejected ==
    [][RandomTestConfirmed =>
          /\ UNCHANGED benchRunEffects
          /\ IF BlockCount(IF test_options = None THEN <<"1","G">> ELSE test_options)
                   = ValueError
             THEN error' \in {MsgNoMountPoint, NoError}
             ELSE error' \in {MsgNoMountPoint, MsgUnsupported}]_vars

\* C23 happens: the unsupported-test error is up at Review, nothing was run
C23_Witness ==
    /\ wizard = "benchmark" /\ current_step = BenchReview /\ test_type \in {2, 3}
    /\ error = MsgUnsupported /\ last_cmd = <<>> /\ results_file = <<>>

\* a click that asks for a privileged action on the UI thread
UiPrivilegedAttempt ==
    \/ RaidOnWipeDrive1 \/ RaidOnWipeDrive2
    \/ BcacheOnWipeBacking \/ BcacheOnWipeCache
    \/ BcacheOnDetachBacking \/ BcacheOnDetachCache
    \/ FstabOnFormatBcache
    \/ FstabOnNext /\ current_step = FstabReview
    \/ /\ BenchOnNext /\ current_step = BenchReview
       /\ BlockCount(IF test_options = None THEN <<"1","G">> ELSE test_options) # ValueError

\* a worker thread reaches detect_terminal
WorkerPrivilegedAttempt == RaidWorkerLaunch \/ BcacheWorkerLaunch \/ SmartTestLaunch

completionFlags ==
    <<drive1_wiped, drive2_wiped, backing_wiped, cache_wiped, backing_detached,
      cache_detached, format_done>>

\* nothing was launched or recorded, and the window goes on taking events
NothingLaunched ==
    /\ UNCHANGED <<last_cmd, ui_wait, completionFlags, results_file, current_step>>
    /\ worker' # "running"
    /\ open' /\ ui_wait' = NoWait

\* what a privileged action does when no terminal emulator is installed:
\* an error dialog on the UI thread, a failed outcome on a worker
NoTerminalOutcome ==
    /\ (~terminal /\ UiPrivilegedAttempt) => (error' # NoError /\ NothingLaunched)
    /\ (~terminal /\ (RaidWorkerLaunch \/ BcacheWorkerLaunch)) =>
          /\ idle' = Append(idle, [fn |-> idle'[Len(idle')].fn, success |-> FALSE])
          /\ NothingLaunched
    /\ (~terminal /\ SmartTestLaunch) => (test_success' = FALSE /\ NothingLaunched)

PrivilegedActionReturns ==
    RaidWipefsReturn \/ BcacheWipefsReturn \/ BcacheDetachReturn \/ FstabFormatReturn

\* C25: when the privileged command of a wipe, detach or format action has
\* not succeeded, the return of the handler sets no completion flag, leaves
\* Next as it was and launches no command.
C25_FailedActionSetsNoFlag ==
    [][(PrivilegedActionReturns /\ ui_wait.exit # 0) =>
          (UNCHANGED <<completionFlags, next_btn, last_cmd>> /\ ui_wait' = NoWait)]_vars

\* C26: within one call of get_smart_info the query with sudo is run at most
\* once; the step that runs it ends the call, with a result that is not
\* available when the query failed; and after it the call runs no probe and
\* no further query.
C26_SudoQueryAtMostOnce ==
    /\ [](smart_call.sudos <= 1)
    /\ [][InfoSudo => smart_call'.pc = "returned"]_vars
    /\ [][(smart_call.sudos >= 1) => ~(InfoProbe \/ InfoQuery \/ InfoSudo)]_vars

\* C27: a call of get_smart_info never ends with an exception; when a tool
\* fails it returns a result that is not available and says why.
C27_SmartInfoNeverRaises ==
    /\ smart_call.pc # "raised"
    /\ smart_call.pc = "returned" =>
          (smart_call.result.available \/ smart_call.result.output # "none")

TransportIsUsb(drive) == Lower(drive.transport) = TranUsb

\* C28: filter_drives puts every drive it is given in exactly one of two
\* lists, the usb list being the drives whose transport is "usb" in any
\* letter case and the main list the others, both in input order; the
\* removable and hotplug flags do not matter.
C28_FilterPartitionsByTransport ==
    listing.pc = "filtered" =>
        /\ listing.lists.usb = SelectSeq(listing.drives, TransportIsUsb)
        /\ listing.lists.main = SelectSeq(listing.drives, LAMBDA d : ~TransportIsUsb(d))
        /\ Len(listing.lists.usb) + Len(listing.lists.main) = Len(listing.drives)

\* C28 happens: a removable sata drive and a USB drive were filtered
C28_Witness ==
    /\ listing.pc = "filtered" /\ Len(listing.drives) = 2
    /\ Len(listing.lists.main) = 1 /\ listing.lists.main[1].is_removable
    /\ listing.lists.main[1] = listing.drives[1]
    /\ Len(listing.lists.usb) = 1 /\ listing.lists.usb[1].transport = <<"U","S","B">>

\* C29: get_drives never raises; when the lsblk query or the decoding of its
\* output fails it returns the empty list.
C29_ListDrivesFailsSoft ==
    listing.pc # "idle" =>
        /\ listing.pc # "raised"
        /\ listing.out.status # "ok" => listing.drives = <<>>
        /\ (\E i \in 1..Len(listing.out.rows) :
               IsDiskRow(listing.out.rows[i]) /\ listing.out.rows[i].tran = None)
             => listing.drives = <<>>

\* C29 happens: the query failed and the list is empty
C29_Witness ==
    /\ listing.pc = "listed" /\ listing.out.status = "garbled" /\ listing.drives = <<>>

\* the device is one of the listed drives and is not USB, not NVMe, rotational
IsListedHdd(inv, device) ==
    \E j \in 1..Len(get_drives(inv)) :
        get_drives(inv)[j].name = device /\ IsHdd(get_drives(inv)[j])

\* C30: every device the Backing-device step of the Bcache wizard offers is
\* a drive that is not USB, not NVMe and rotational; nothing else, such as
\* a RAID array, is in the list.
C30_BackingListOnlyHdds ==
    [][(backing_list' # backing_list)
         => \A i \in 1..Len(backing_list') : IsListedHdd(inventory, backing_list'[i])]_vars

\* the probe gave its fields and they are in the dict returned
ProbeFieldsKept(p, details) ==
    /\ (p.lsblk.status = "ok" /\ p.lsblk.found)
          => {"rotation", "transport", "partition_table"} \subseteq DOMAIN details
    /\ p.trim = "ok" => "trim" \in DOMAIN details
    /\ (p.udev.status = "ok" /\ p.udev.rpm # Absent) => "rpm" \in DOMAIN details
    /\ (p.udev.status = "ok" /\ p.udev.link_speed # Absent) => "link_speed" \in DOMAIN details

\* C31: get_technical_details never raises, and whichever single probe
\* fails, the fields of the other probes and the derived rotation_speed,
\* in_raid and in_bcache are in the dict it returns.
C31_ProbeFailuresStayLocal ==
    tech.pc = "returned" =>
        /\ {"rotation_speed", "in_raid", "in_bcache"} \subseteq DOMAIN tech.details
        /\ ProbeFieldsKept(tech.probes, tech.details)

\* the device counts as NVMe: by its name or by its transport column
DetailsIsNvme ==
    \/ Contains(Lower(tech.device), TranNvme)
    \/ Lower(Get(tech.details, "transport", <<>>)) = TranNvme

\* the RPM udevadm printed, when it is not "0"
DetailsRpmKnown == Get(tech.details, "rpm", Absent) \notin {Absent, Rpm0}

\* the PCIe generation of the link speed udevadm printed
DetailsGeneration ==
    LET link == Get(tech.details, "link_speed", Absent)
    IN  IF link = Speed8 THEN <<"P","C","I","e"," ","G","e","n"," ","3">>
        ELSE IF link = Speed16 THEN <<"P","C","I","e"," ","G","e","n"," ","4">>
        ELSE IF link = Speed32 THEN <<"P","C","I","e"," ","G","e","n"," ","5">>
        ELSE <<"U","n","k","n","o","w","n">>

\* the priority rule of the summary, the NVMe line ending with nvmeSuffix
RotationSpeedRule(nvmeSuffix) ==
    (tech.pc = "returned" /\ "rotation_speed" \in DOMAIN tech.details) =>
        LET speed == tech.details["rotation_speed"]
            rotational == Get(tech.details, "rotation", FALSE)
        IN  /\ (rotational /\ DetailsRpmKnown) => speed = tech.details["rpm"] \o <<" ","r","p","m">>
            /\ (rotational /\ ~DetailsRpmKnown) => speed = <<"U","n","k","n","o","w","n"," ","(","H","D","D",")">>
            /\ (~rotational /\ DetailsIsNvme) => speed = DetailsGeneration \o nvmeSuffix
            /\ (~rotational /\ ~DetailsIsNvme) => speed = <<"S","o","l","i","d"," ","S","t","a","t","e"," ","(","S","S","D",")">>

\* C32 as stated: a rotational device gives "<rpm> rpm" or "Unknown (HDD)",
\* a non-rotational NVMe device gives "PCIe Gen 3", "PCIe Gen 4",
\* "PCIe Gen 5" or "Unknown" by its link speed, every other device
\* "Solid State (SSD)".
C32_RotationSpeedSummary == RotationSpeedRule(<<>>)

\* C32: whenever get_technical_details computes the summary, a rotational
\* device gives "<rpm> rpm" when udevadm printed an RPM other than "0" and
\* "Unknown (HDD)" otherwise; a non-rotational device that is NVMe by name
\* or transport gives "PCIe Gen 3 (NVMe)", "PCIe Gen 4 (NVMe)",
\* "PCIe Gen 5 (NVMe)" for link speeds holding "8.0", "16.0", "32.0" and
\* "Unknown (NVMe)" otherwise; every other device "Solid State (SSD)".
C32_RotationSpeedPriority == RotationSpeedRule(<<" ","(","N","V","M","e",")">>)

\* C32 happens: the summary of a non-rotational NVMe device on a
\* 16.0 GT/s link was computed
C32_Witness ==
    /\ tech.pc = "returned" /\ "rotation_speed" \in DOMAIN tech.details
    /\ tech.device = DevPrefix \o NameNvme
    /\ ~Get(tech.details, "rotation", FALSE)
    /\ Get(tech.details, "link_speed", Absent) = Speed16
    /\ tech.details["rotation_speed"] = <<"P","C","I","e"," ","G","e","n"," ","4"," ","(","N","V","M","e",")">>

\* the line is one get_raid_arrays makes an array of
IsArrayLine(line) == StartsWith(line, WordMd) /\ Len(Split(line)) >= 4

\* C38: for every array line of /proc/mdstat, get_raid_arrays reports
\* status "active" exactly when the state the line gives is active, and
\* "inactive" when the line says inactive.
C38_StatusFollowsLineState ==
    (raid_arrays.pc = "returned" /\ ~raid_arrays.raised) =>
        LET arrayLines == SelectSeq(raid_arrays.lines, IsArrayLine)
        IN  /\ Len(raid_arrays.arrays) = Len(arrayLines)
            /\ \A i \in 1..Len(arrayLines) :
                  LET state == Split(arrayLines[i])[3]
                      status == raid_arrays.arrays[i].status
                  IN  /\ status = WordActive <=> state = WordActive
                      /\ state = WordInactive => status = WordInactive

\* C33: when Next leaves the Cache-device step of the Bcache wizard with no
\* row selected, no cache device is selected from then on: not one chosen
\* on an earlier visit of the step either.
C33_NoRowMeansNoCache ==
    [][(wizard = "bcache" /\ current_step = BcacheCache /\ cache_sel = 0
          /\ current_step' = BcacheDetach)
         => selected_cache' = None]_vars

\* C35: the Bcache wizard reports success only when the make-bcache of this
\* run succeeded; with a bcache device there from before and a failing
\* make-bcache the Result step reports failure.
C35_SuccessNeedsCreation ==
    (wizard = "bcache" /\ current_step = BcacheResult /\ result_label = "success")
       => make_bcache_exit = 0

\* a creation worker was started and its result callback has not run yet
CreationPending ==
    /\ wizard \in {"raid", "bcache"}
    /\ \/ worker \in {"started", "running", "sleeping"}
       \/ worker = "done" /\ idle # <<>>

\* C36: after Confirm at Review, Finish stays disabled while the creation
\* worker of the RAID or Bcache wizard runs, and on every path of the
\* worker it is enabled in the end, unless the window was closed first.
C36_FinishEnabledInTheEnd ==
    /\ [](CreationPending => ~finish_btn)
    /\ (CreationPending ~> (finish_btn \/ ~open))

\* C36 happens: no terminal was found by the worker, its failure callback
\* ran and Finish is enabled
C36_Witness ==
    /\ wizard = "bcache" /\ current_step = BcacheResult /\ worker = "done"
    /\ last_cmd[1].prog # "make-bcache" /\ result_label = "failure" /\ finish_btn

\* C37: when the lsblk query succeeds, get_drives returns one record for
\* each row of type "disk", in order, whatever the row's other columns
\* hold: a disk with a null transport is listed too.
C37_OneRecordPerDisk ==
    (listing.pc # "idle" /\ listing.out.status = "ok") =>
        LET disks == SelectSeq(listing.out.rows, IsDiskRow)
        IN  /\ Len(listing.drives) = Len(disks)
            /\ \A i \in 1..Len(disks) : listing.drives[i].name = DevPrefix \o disks[i].name

\* the commands of the Result action format the device
CommitFormats == \E i \in DOMAIN last_cmd : last_cmd[i].prog = "mkfs"

\* the UUID mkfs gives the filesystem it makes: a new one, none of those
\* blkid could print before
FreshUuid == <<"u","2">>

\* the UUID of the filesystem on the device once the commands have run
UuidAfterCommit ==
    IF CommitFormats THEN FreshUuid
    ELSE IF uuid_query = QueryFailed THEN <<>> ELSE Strip(uuid_query)

\* C34: when the Result action of the Fstab wizard formats the device, the
\* UUID in the line it appends is that of the filesystem the format made,
\* not the one the device had before.
C34_UuidIsThatOfNewFilesystem ==
    (wizard = "fstab" /\ current_step = FstabResult /\ CommitFormats
        /\ StartsWith(SourceField(AppendedLine), <<"U","U","I","D","=">>))
       => SourceField(AppendedLine) = <<"U","U","I","D","=">> \o UuidAfterCommit

\* C39: the line the Review step of the Fstab wizard shows is the line that
\* is appended to the mount table on Confirm.
C39_ReviewLineIsAppendedLine ==
    (wizard = "fstab" /\ current_step = FstabResult) => summary_line = AppendedLine

\* C40: with devices that do not change while the Bcache wizard is open,
\* a selected backing device and a selected cache device are never the
\* same device.
C40_BackingAndCacheDiffer ==
    (wizard = "bcache" /\ Truthy(selected_backing) /\ Truthy(selected_cache))
       => selected_backing # selected_cache

\* C40 happens: an HDD is the backing device and an SSD the cache device
C40_Witness ==
    /\ wizard = "bcache" /\ current_step = BcacheReview
    /\ selected_backing = DevPrefix \o NameSda /\ selected_cache = DevPrefix \o NameSdb

====
